---- MODULE Spec2Model ----
(***************************************************************************)
(* Model of the wildcard word-search service: the in-memory word index     *)
(* (src/index.py), the request handlers of the basic and the threaded      *)
(* server (src/server_basic.py, src/server_threaded.py) and the accept     *)
(* loop with its worker pool.                                              *)
(*                                                                         *)
(* Text is modelled as sequences of characters; a character is a TLA+      *)
(* string naming one code point ("a", "?", "Idot" for U+0130, "cdot" for   *)
(* U+0307, "longs" for U+017F).  Python indices are 0-based, the           *)
(* sequences here are 1-based: corpus index i of the source is i+1 here,   *)
(* which keeps the order.                                                  *)
(***************************************************************************)
EXTENDS Integers, Sequences, FiniteSets, TLC

VARIABLES
    index,          \* the WordIndex object (words, words_lower, len_to_indices, pos_char_index)
    blooms_built,   \* index._blooms_built
    bloom_letters,  \* what index._bloom_letters answers "maybe" for
    bloom_bigrams,  \* what index._bloom_bigrams answers "maybe" for
    pattern,        \* the pattern handed to the index operation under study
    ires,           \* the last index operation and what it returned
    server,         \* which server runs: "basic" or "threaded"
    cfg,            \* main's cfg dict, args.mode and whether a memory soft limit is set
    CFG_COMPLEXITY, \* the module-level wildcard limits
    UNDER_MEMORY_PRESSURE,  \* the module-level pressure flag
    stats,          \* the Stats record
    req,            \* the raw request line under study
    rres,           \* what handling req did
    conns,          \* the client connections of the threaded server
    queue,          \* the executor's work queue: connections submitted, not started
    main,           \* main's accept loop: where it is, and shutdown_evt
    regex_cache     \* the keys held by the cache of index._compile_regex_body, oldest first

ivars == <<index, blooms_built, bloom_letters, bloom_bigrams, pattern, ires>>
svars == <<server, cfg, CFG_COMPLEXITY, UNDER_MEMORY_PRESSURE, stats, req, rres>>
cvars == <<conns, queue>>
mvars == <<main, regex_cache>>
vars == <<ivars, svars, cvars, mvars>>

(***************************************************************************)
(* Bounds of the model.                                                    *)
(***************************************************************************)
MaxWords == 3
MaxPatLen == 2
MaxMulti == 2
MaxOff == 2
MaxLim == 2
MaxConns == 2
MaxRequests == 2

(***************************************************************************)
(* Characters and str methods.                                             *)
(***************************************************************************)
LowerAlpha == <<"a", "b", "c", "d", "e", "f", "g", "h", "i", "j", "k", "l", "m",
                "n", "o", "p", "q", "r", "s", "t", "u", "v", "w", "x", "y", "z">>
UpperAlpha == <<"A", "B", "C", "D", "E", "F", "G", "H", "I", "J", "K", "L", "M",
                "N", "O", "P", "Q", "R", "S", "T", "U", "V", "W", "X", "Y", "Z">>

IsUpper(c) == \E k \in 1..Len(UpperAlpha) : UpperAlpha[k] = c
IsLower(c) == \E k \in 1..Len(LowerAlpha) : LowerAlpha[k] = c
ToLower(c) == LowerAlpha[CHOOSE k \in 1..Len(UpperAlpha) : UpperAlpha[k] = c]
ToUpper(c) == UpperAlpha[CHOOSE k \in 1..Len(LowerAlpha) : LowerAlpha[k] = c]

\* str.lower() of one character; U+0130 lowers to the two code points "i", U+0307
\* (U+017F, a lower-case letter, stays).
LowerChar(c) ==
    IF IsUpper(c) THEN <<ToLower(c)>>
    ELSE IF c = "Idot" THEN <<"i", "cdot">>
    ELSE <<c>>

RECURSIVE Lower(_)
Lower(s) == IF s = <<>> THEN <<>> ELSE LowerChar(Head(s)) \o Lower(Tail(s))

\* str.upper() over the characters of the model (U+0307 and U+0130 stay).
Upper(s) == [i \in 1..Len(s) |-> IF IsLower(s[i]) THEN ToUpper(s[i]) ELSE s[i]]

\* The simple lower-case mapping re.IGNORECASE compares characters with.
FoldChar(c) ==
    IF IsUpper(c) THEN ToLower(c)
    ELSE IF c = "Idot" THEN "i"
    ELSE IF c = "longs" THEN "s"
    ELSE c

IsWild(c) == c \in {"?", "*"}

CharSet(s) == {s[i] : i \in 1..Len(s)}

CountChar(s, c) == Cardinality({i \in 1..Len(s) : s[i] = c})

(***************************************************************************)
(* _SimpleBloom: a bit set addressed by three hashes of the string.  A     *)
(* query answers True for every string that was added and for any string   *)
(* whose three bits collide with added ones; the filter is modelled by the *)
(* set of strings it answers True for.                                     *)
(***************************************************************************)
maybe_contains(bloom, s) == s \in bloom

\* The strings _init_blooms adds to _bloom_letters for one corpus.
LettersOf(words_lower) ==
    UNION {CharSet(words_lower[i]) : i \in 1..Len(words_lower)}

\* The strings _init_blooms adds to _bloom_bigrams for one corpus.
BigramsOf(words_lower) ==
    UNION {{SubSeq(words_lower[i], p, p + 1) : p \in 1..(Len(words_lower[i]) - 1)} :
              i \in 1..Len(words_lower)}

RECURSIVE SegScan(_, _, _)
SegScan(p, cur, segs) ==
    IF p = <<>> THEN (IF cur # <<>> THEN Append(segs, cur) ELSE segs)
    ELSE IF IsWild(Head(p))
         THEN SegScan(Tail(p), <<>>, IF cur # <<>> THEN Append(segs, cur) ELSE segs)
         ELSE SegScan(Tail(p), Append(cur, Head(p)), segs)

letter_segments(p) == SegScan(p, <<>>, <<>>)

should_skip_pattern(pat) ==
    IF pat = <<>> THEN TRUE
    ELSE LET p == Lower(pat)
             has_letter == \E i \in 1..Len(p) : ~IsWild(p[i])
             segs == letter_segments(p)
         IN  IF ~has_letter THEN FALSE
             ELSE IF \E ch \in {c \in CharSet(p) : ~IsWild(c)} :
                        ~maybe_contains(bloom_letters, ch)
                  THEN TRUE
                  ELSE \E k \in 1..Len(segs) :
                          /\ Len(segs[k]) >= 2
                          /\ \E i \in 1..(Len(segs[k]) - 1) :
                                ~maybe_contains(bloom_bigrams, SubSeq(segs[k], i, i + 1))

(***************************************************************************)
(* Wildcard patterns as regular expressions.  A compiled body is a         *)
(* sequence of atoms: "." (any one character), ".*" (any run) and          *)
(* literals; an escaped meta character is the literal it stands for.       *)
(***************************************************************************)
RegexMeta == {".", "^", "$", "+", "{", "}", "[", "]", "|", "(", ")", "\\"}

AnyAtom == [kind |-> "any", ch |-> "."]
StarAtom == [kind |-> "star", ch |-> "*"]
LitAtom(c) == [kind |-> "lit", ch |-> c]

wildcard_to_regex_body(pat, allow_star, partial) ==
    LET esc == [i \in 1..Len(pat) |->
                  IF pat[i] \in RegexMeta THEN LitAtom(pat[i])
                  ELSE IF pat[i] = "?" THEN AnyAtom
                  ELSE IF pat[i] = "*" /\ allow_star THEN StarAtom
                  ELSE LitAtom(pat[i])]
    IN  IF partial THEN <<StarAtom>> \o esc \o <<StarAtom>> ELSE esc

\* compile_regex_body without the re.IGNORECASE flag.
compile_regex_body_case_sensitive(body, anchored) ==
    [atoms |-> body, anchored |-> anchored, ignorecase |-> FALSE]

\* re.compile(pat, re.IGNORECASE): the atoms and the flag the matcher runs with.
compile_regex_body(body, anchored) ==
    [atoms |-> body, anchored |-> anchored, ignorecase |-> TRUE]

LitMatch(rx, c, wc) == IF rx.ignorecase THEN FoldChar(c) = FoldChar(wc) ELSE c = wc

RECURSIVE AtomsMatch(_, _, _, _)
\* Do atoms a[i..] match exactly the characters w[j..] ?
AtomsMatch(rx, i, w, j) ==
    LET a == rx.atoms
    IN  IF i > Len(a) THEN j > Len(w)
        ELSE IF a[i].kind = "star"
             THEN \E k \in j..(Len(w) + 1) : AtomsMatch(rx, i + 1, w, k)
             ELSE /\ j <= Len(w)
                  /\ (a[i].kind = "any" \/ LitMatch(rx, a[i].ch, w[j]))
                  /\ AtomsMatch(rx, i + 1, w, j + 1)

\* Pattern.fullmatch(w) is not None
fullmatch(rx, w) == AtomsMatch(rx, 1, w, 1)

\* Pattern.search(w) is not None: some substring of w is matched.
search(rx, w) ==
    \E s \in 1..(Len(w) + 1) : \E e \in (s - 1)..Len(w) :
        AtomsMatch(rx, 1, SubSeq(w, s, e), 1)

(***************************************************************************)
(* WordIndex.                                                              *)
(***************************************************************************)
RECURSIVE LenKeys(_, _, _)
\* The keys of len_to_indices in dict insertion order (first word of each length).
LenKeys(wl, i, acc) ==
    IF i > Len(wl) THEN acc
    ELSE LenKeys(wl, i + 1,
                 IF \E k \in 1..Len(acc) : acc[k] = Len(wl[i]) THEN acc
                 ELSE Append(acc, Len(wl[i])))

IdxSeq(n) == [i \in 1..n |-> i]

build_indexes(wl) ==
    LET keys == LenKeys(wl, 1, <<>>)
        bucket(L) == SelectSeq(IdxSeq(Len(wl)), LAMBDA i : Len(wl[i]) = L)
        Ls == {keys[k] : k \in 1..Len(keys)}
        bset(L) == {i \in 1..Len(wl) : Len(wl[i]) = L}
    IN  [len_keys |-> keys,
         len_to_indices |-> [L \in Ls |-> bucket(L)],
         pos_char_index |->
            [L \in Ls |-> [p \in 1..L |->
                [ch \in {wl[i][p] : i \in bset(L)} |-> {i \in bset(L) : wl[i][p] = ch}]]]]

\* WordIndex.__init__ up to the call of _init_blooms.
WordIndex(words) ==
    LET wl == [i \in 1..Len(words) |-> Lower(words[i])]
        b == build_indexes(wl)
    IN  [words |-> words, words_lower |-> wl, len_keys |-> b.len_keys,
         len_to_indices |-> b.len_to_indices, pos_char_index |-> b.pos_char_index]

exact_indices_via_pos_index(ix, pat) ==
    LET L == Len(pat)
    IN  IF L \notin DOMAIN ix.len_to_indices THEN <<>>
        ELSE LET idxs == ix.len_to_indices[L]
                 p == Lower(pat)
                 fixed_positions == {i \in 1..Len(p) : p[i] # "?"}
                 by_pos == ix.pos_char_index[L]
                 get(pos) == IF p[pos] \in DOMAIN by_pos[pos] THEN by_pos[pos][p[pos]] ELSE {}
                 cand == {i \in 1..Len(ix.words) : \A pos \in fixed_positions : i \in get(pos)}
             IN  IF fixed_positions = {} THEN idxs
                 ELSE SelectSeq(idxs, LAMBDA i : i \in cand)

min_len(pat) == Cardinality({i \in 1..Len(pat) : pat[i] # "*"})

RECURSIVE ScanBuckets(_, _, _, _, _)
\* for L, idxs in len_to_indices.items(): if L < lo: continue; for i in idxs: if hit(i): append
ScanBuckets(ix, k, lo, rx, full) ==
    IF k > Len(ix.len_keys) THEN <<>>
    ELSE LET L == ix.len_keys[k]
             here == IF L < lo THEN <<>>
                     ELSE SelectSeq(ix.len_to_indices[L],
                                    LAMBDA i : IF full THEN fullmatch(rx, ix.words[i])
                                               ELSE search(rx, ix.words[i]))
         IN  here \o ScanBuckets(ix, k + 1, lo, rx, full)

WordsAt(ix, idxs) == [k \in 1..Len(idxs) |-> ix.words[idxs[k]]]

HasStar(pat) == \E i \in 1..Len(pat) : pat[i] = "*"
AllQuestions(pat) == \A i \in 1..Len(pat) : pat[i] = "?"

find_exact(ix, pat) ==
    IF should_skip_pattern(pat) THEN <<>>
    ELSE IF ~HasStar(pat) THEN WordsAt(ix, exact_indices_via_pos_index(ix, pat))
    ELSE LET rx == compile_regex_body(wildcard_to_regex_body(pat, TRUE, FALSE), TRUE)
         IN  WordsAt(ix, ScanBuckets(ix, 1, min_len(pat), rx, TRUE))

count_exact(ix, pat) ==
    IF should_skip_pattern(pat) THEN 0
    ELSE IF ~HasStar(pat) THEN Len(exact_indices_via_pos_index(ix, pat))
    ELSE LET rx == compile_regex_body(wildcard_to_regex_body(pat, TRUE, FALSE), TRUE)
         IN  Len(ScanBuckets(ix, 1, min_len(pat), rx, TRUE))

find_partial(ix, pat) ==
    IF should_skip_pattern(pat) THEN <<>>
    ELSE IF ~HasStar(pat)
         THEN IF AllQuestions(pat)
              THEN SelectSeq(ix.words, LAMBDA w : Len(w) >= Len(pat))
              ELSE LET rx == compile_regex_body(wildcard_to_regex_body(pat, FALSE, TRUE), FALSE)
                   IN  WordsAt(ix, ScanBuckets(ix, 1, Len(pat), rx, FALSE))
    ELSE LET rx == compile_regex_body(wildcard_to_regex_body(pat, TRUE, TRUE), FALSE)
         IN  WordsAt(ix, ScanBuckets(ix, 1, min_len(pat), rx, FALSE))

RECURSIVE SumBuckets(_, _, _)
\* sum(len(idxs) for LL, idxs in len_to_indices.items() if LL >= L)
SumBuckets(ix, k, L) ==
    IF k > Len(ix.len_keys) THEN 0
    ELSE (IF ix.len_keys[k] >= L THEN Len(ix.len_to_indices[ix.len_keys[k]]) ELSE 0)
         + SumBuckets(ix, k + 1, L)

count_partial(ix, pat) ==
    IF should_skip_pattern(pat) THEN 0
    ELSE IF ~HasStar(pat)
         THEN IF AllQuestions(pat)
              THEN SumBuckets(ix, 1, Len(pat))
              ELSE LET rx == compile_regex_body(wildcard_to_regex_body(pat, FALSE, TRUE), FALSE)
                   IN  Len(ScanBuckets(ix, 1, Len(pat), rx, FALSE))
    ELSE LET rx == compile_regex_body(wildcard_to_regex_body(pat, TRUE, TRUE), FALSE)
         IN  Len(ScanBuckets(ix, 1, min_len(pat), rx, FALSE))

(***************************************************************************)
(* Request lines.  A decoded line is the sequence of its space-separated   *)
(* tokens (line.split(' ')); an empty token stands for two adjacent        *)
(* spaces and the one-token line <<<<>>>> for the empty line.  A raw line  *)
(* is [utf8, toks]: the tokens its bytes decode to and whether the bytes   *)
(* are valid UTF-8 (an invalid line carries one stray byte 0xFF).          *)
(***************************************************************************)
FIND == <<"F", "I", "N", "D">>
COUNT == <<"C", "O", "U", "N", "T">>
FIND_MULTI == <<"F", "I", "N", "D", "_", "M", "U", "L", "T", "I">>
BATCH == <<"B", "A", "T", "C", "H">>
STATS == <<"S", "T", "A", "T", "S">>
QUIT == <<"Q", "U", "I", "T">>
KwEncoding == <<"-", "-", "a", "c", "c", "e", "p", "t", "-",
                "e", "n", "c", "o", "d", "i", "n", "g">>
KwRange == <<"R", "A", "N", "G", "E">>
KwMode == <<"-", "-", "m", "o", "d", "e">>
GzipWord == <<"g", "z", "i", "p">>
ExactWord == <<"e", "x", "a", "c", "t">>
PartialWord == <<"p", "a", "r", "t", "i", "a", "l">>

RECURSIVE Join(_)
\* ' '.join(toks)
Join(toks) ==
    IF toks = <<>> THEN <<>>
    ELSE IF Len(toks) = 1 THEN toks[1]
    ELSE toks[1] \o <<" ">> \o Join(Tail(toks))

\* Bytes of one character in UTF-8.
Utf8Len(c) == IF c \in {"Idot", "cdot", "sup2"} THEN 2 ELSE 1

RECURSIVE Utf8Bytes(_)
Utf8Bytes(s) == IF s = <<>> THEN 0 ELSE Utf8Len(Head(s)) + Utf8Bytes(Tail(s))

\* len(raw): the encoded line and its terminating "\n".
ByteLen(raw) == Utf8Bytes(Join(raw.toks)) + 1 + (IF raw.utf8 THEN 0 ELSE 1)

\* s.strip() on a token sequence: leading and trailing empty tokens go.
RECURSIVE LStrip(_)
LStrip(toks) == IF toks # <<>> /\ Head(toks) = <<>> THEN LStrip(Tail(toks)) ELSE toks
RECURSIVE RStrip(_)
RStrip(toks) ==
    IF toks # <<>> /\ toks[Len(toks)] = <<>> THEN RStrip(SubSeq(toks, 1, Len(toks) - 1))
    ELSE toks
Strip(toks) == RStrip(LStrip(toks))

\* s.split(): the non-empty tokens.
SplitWs(toks) == SelectSeq(toks, LAMBDA t : t # <<>>)

\* ' kw ' in rest: kw is a token with a space on either side inside rest.
HasKw(rest, kw) == \E i \in 2..(Len(rest) - 1) : rest[i] = kw

\* rest.rsplit(' kw ', 1) for a rest that holds ' kw '.
RSplit(rest, kw) ==
    LET i == CHOOSE k \in 2..(Len(rest) - 1) :
                 /\ rest[k] = kw
                 /\ \A j \in (k + 1)..(Len(rest) - 1) : rest[j] # kw
    IN  [left |-> SubSeq(rest, 1, i - 1), right |-> SubSeq(rest, i + 1, Len(rest))]

AsciiDigits == <<"0", "1", "2", "3", "4", "5", "6", "7", "8", "9">>
IsAsciiDigit(c) == \E k \in 1..10 : AsciiDigits[k] = c
DigitVal(c) == (CHOOSE k \in 1..10 : AsciiDigits[k] = c) - 1

\* str.isdigit(): also true of digits that are no decimal digits, as U+00B2.
isdigit(t) == t # <<>> /\ \A i \in 1..Len(t) : IsAsciiDigit(t[i]) \/ t[i] = "sup2"

\* int(t) raises ValueError unless every character is a decimal digit.
IntRaises(t) == t = <<>> \/ \E i \in 1..Len(t) : ~IsAsciiDigit(t[i])

RECURSIVE IntAcc(_, _)
IntAcc(t, acc) == IF t = <<>> THEN acc ELSE IntAcc(Tail(t), 10 * acc + DigitVal(Head(t)))
int(t) == IntAcc(t, 0)

(***************************************************************************)
(* Response lines.                                                         *)
(***************************************************************************)
Line(k, code, text, n, w) == [k |-> k, code |-> code, text |-> text, n |-> n, w |-> w]

\* "<code> <text> <n>"; a 400 line carries its reason in text and no count.
StatusLine(code, text, n) == Line("status", code, text, n, <<>>)
BadLine(reason) == Line("status", 400, reason, -1, <<>>)
WordLine(w) == Line("word", 0, "", 0, <<w>>)

Newline == "\n"

\* The join that ends every word with a newline.
join_newline_each(ws) ==
    IF ws = <<>> THEN <<>>
    ELSE LET F[i \in 1..Len(ws)] ==
                 (IF i = 1 THEN <<>> ELSE F[i - 1]) \o ws[i] \o <<Newline>>
         IN  F[Len(ws)]

RECURSIVE join_newline(_)
\* '\n'.join(matches)
join_newline(ws) ==
    IF ws = <<>> THEN <<>>
    ELSE IF Len(ws) = 1 THEN ws[1]
    ELSE ws[1] \o <<Newline>> \o join_newline(Tail(ws))

\* gzip.compress / gzip.decompress and base64.b64encode / base64.b64decode:
\* the compressed stream and its base64 text are kept as the data under a
\* header that names the encoding; a decoder accepts only its own encoding
\* and gives back the data, and what it is given otherwise is no payload.
gzip_compress(data) == <<"gzip">> \o data
gzip_decompress(z) == IF z # <<>> /\ Head(z) = "gzip" THEN Tail(z) ELSE <<"error">>
b64encode(z) == <<"base64">> \o z
b64decode(t) == IF t # <<>> /\ Head(t) = "base64" THEN Tail(t) ELSE <<"error">>

RECURSIVE split_lines(_, _)
\* data.split('\n') of the client, cur being the line read so far.
split_lines(text, cur) ==
    IF text = <<>> THEN <<cur>>
    ELSE IF Head(text) = Newline THEN <<cur>> \o split_lines(Tail(text), <<>>)
    ELSE split_lines(Tail(text), Append(cur, Head(text)))

\* The clients' decoding of the payload of a GZIP line:
\* data = gzip.decompress(b64decode(...)); data.split('\n') if data else []
decode_gzip_line(payload) ==
    LET data == gzip_decompress(b64decode(payload))
    IN  IF data = <<>> THEN <<>> ELSE split_lines(data, <<>>)

\* "GZIP " + b64encode(gzip.compress('\n'.join(matches).encode('utf-8')))
GzipLine(ws) ==
    Line("gzip", 0, "GZIP", 0, <<b64encode(gzip_compress(join_newline(ws)))>>)
CountLine(i, c) == Line("count", 0, "COUNT", c, <<>>)
StatLine(key, v) == Line("stat", 0, key, v, <<>>)
EndLine == Line("END", 0, "END", 0, <<>>)

WordLines(ws) == [i \in 1..Len(ws) |-> WordLine(ws[i])]

NotFound == <<StatusLine(404, "NOT-FOUND", 0), EndLine>>
BadRequest(reason) == <<BadLine(reason), EndLine>>
Busy == <<StatusLine(503, "BUSY", 0), EndLine>>

(***************************************************************************)
(* Stats.                                                                  *)
(***************************************************************************)
Counters == {"connections", "active_connections", "requests", "find_requests",
             "count_requests", "stats_requests", "ok_responses",
             "not_found_responses", "bad_request_responses"}

\* Stats.__init__ / EnhancedStats.__init__; timed counts the calls of
\* record_request_time (the sum of the latency histogram).
NewStats ==
    [connections |-> 0, active_connections |-> 0, requests |-> 0,
     find_requests |-> 0, count_requests |-> 0, stats_requests |-> 0,
     ok_responses |-> 0, not_found_responses |-> 0, bad_request_responses |-> 0,
     timed |-> 0, hist_q |-> <<>>, hist_s |-> <<>>]

inc(st, attr) == [st EXCEPT ![attr] = @ + 1]

RECURSIVE IncAll(_, _)
IncAll(st, attrs) == IF attrs = <<>> THEN st ELSE IncAll(inc(st, Head(attrs)), Tail(attrs))

connection_opened(st) ==
    [st EXCEPT !.connections = @ + 1, !.active_connections = @ + 1]

\* connection_closed without the decrement.
connection_closed_forgotten(st) == st

connection_closed(st) ==
    [st EXCEPT !.active_connections = IF @ > 0 THEN @ - 1 ELSE @]

record_request_time(st, calls) == [st EXCEPT !.timed = @ + calls]

\* pattern_complexity_hist[f"q_{q}"] += 1 on a defaultdict(int), kept as the
\* sequence of the keys bumped so far.
BumpHist(st, q, s) ==
    [st EXCEPT !.hist_q = Append(@, q), !.hist_s = Append(@, s)]

(***************************************************************************)
(* Memory pressure and the complexity guard.                               *)
(***************************************************************************)
\* The handler without its `limit_mb <= 0` test.
pressure_without_limit(limit_on, high) == high

\* _memory_pressure_handler: the new value of UNDER_MEMORY_PRESSURE, given
\* whether a soft limit is configured (and psutil present) and whether this
\* observation of the resident size is above it.
memory_pressure_handler(limit_on, high) == limit_on /\ high

Max2(a, b) == IF a >= b THEN a ELSE b

effective_complexity_limits(ump, cfgc) ==
    IF ump
    THEN [max_questions |-> Max2(1, cfgc.max_questions \div 2),
          max_stars |-> Max2(1, cfgc.max_stars \div 2)]
    ELSE cfgc

\* The guard that refuses a pattern already at a limit.
is_pattern_too_complex_at_limit(pat, max_q, max_s) ==
    IF CountChar(pat, "?") >= max_q
    THEN [tc |-> TRUE, reason |-> "pattern too complex: too many '?' wildcards", n |-> max_q]
    ELSE IF CountChar(pat, "*") >= max_s
    THEN [tc |-> TRUE, reason |-> "pattern too complex: too many '*' wildcards", n |-> max_s]
    ELSE [tc |-> FALSE, reason |-> "", n |-> 0]

\* q = pat.count('?'); s = pat.count('*'); the reason is
\* f"too many '?' wildcards (> {max_q})", n being the limit it names.
is_pattern_too_complex(pat, max_q, max_s) ==
    IF CountChar(pat, "?") > max_q
    THEN [tc |-> TRUE, reason |-> "pattern too complex: too many '?' wildcards", n |-> max_q]
    ELSE IF CountChar(pat, "*") > max_s
    THEN [tc |-> TRUE, reason |-> "pattern too complex: too many '*' wildcards", n |-> max_s]
    ELSE [tc |-> FALSE, reason |-> "", n |-> 0]

TooComplex(r) == <<Line("status", 400, r.reason, r.n, <<>>), EndLine>>

(***************************************************************************)
(* Suffix parsing, matching, pagination and framing.                       *)
(***************************************************************************)
\* if ' --accept-encoding ' in rest: ...
accept_encoding(rest) ==
    IF HasKw(rest, KwEncoding)
    THEN LET sp == RSplit(rest, KwEncoding)
         IN  [rest |-> sp.left, gzip |-> TRUE,
              ok |-> Lower(Join(Strip(sp.right))) = GzipWord]
    ELSE [rest |-> rest, gzip |-> FALSE, ok |-> TRUE]

\* if ' RANGE ' in rest: ... offset = int(...); limit = int(...)
\* st is "ok", "invalid" (the 400 reply) or "raise" (int() raised ValueError);
\* has is "limit is not None".
range_suffix(rest) ==
    IF HasKw(rest, KwRange)
    THEN LET sp == RSplit(rest, KwRange)
             tok == SplitWs(sp.right)
         IN  IF Len(tok) # 2 \/ ~(\A i \in 1..Len(tok) : isdigit(tok[i]))
             THEN [rest |-> sp.left, st |-> "invalid", has |-> FALSE, offset |-> 0, limit |-> 0]
             ELSE IF IntRaises(tok[1]) \/ IntRaises(tok[2])
             THEN [rest |-> sp.left, st |-> "raise", has |-> FALSE, offset |-> 0, limit |-> 0]
             ELSE [rest |-> sp.left, st |-> "ok", has |-> TRUE,
                   offset |-> int(tok[1]), limit |-> int(tok[2])]
    ELSE [rest |-> rest, st |-> "ok", has |-> FALSE, offset |-> 0, limit |-> 0]

\* The ' --mode ' suffix stripped and the server's default mode kept.
mode_suffix_threaded_default(rest, default_mode) ==
    IF HasKw(rest, KwMode)
    THEN [err |-> "", mode |-> default_mode, ptoks |-> RSplit(rest, KwMode).left]
    ELSE [err |-> "", mode |-> default_mode, ptoks |-> rest]

\* The threaded server's ' --mode ' suffix; err is "" or the reason of the 400.
mode_suffix_threaded(rest, default_mode) ==
    IF HasKw(rest, KwMode)
    THEN LET sp == RSplit(rest, KwMode)
             mv == Lower(Join(Strip(sp.right)))
         IN  IF Join(sp.left) = <<>>
             THEN [err |-> "expected 'FIND <pattern>'", mode |-> default_mode, ptoks |-> sp.left]
             ELSE IF mv \notin {ExactWord, PartialWord}
             THEN [err |-> "invalid mode", mode |-> default_mode, ptoks |-> sp.left]
             ELSE [err |-> "", mode |-> IF mv = ExactWord THEN "exact" ELSE "partial",
                   ptoks |-> sp.left]
    ELSE [err |-> "", mode |-> default_mode, ptoks |-> rest]

\* The ' --mode ' suffix stripped and served as exact whatever it names.
mode_suffix_basic_any(rest) ==
    IF HasKw(rest, KwMode)
    THEN [err |-> "", mode |-> "exact", ptoks |-> RSplit(rest, KwMode).left]
    ELSE [err |-> "", mode |-> "exact", ptoks |-> rest]

\* The basic server's ' --mode ' suffix: only exact is served.
mode_suffix_basic(rest) ==
    IF HasKw(rest, KwMode)
    THEN LET sp == RSplit(rest, KwMode)
             mv == Lower(Join(Strip(sp.right)))
         IN  IF mv # ExactWord
             THEN [err |-> "mode not supported", mode |-> "exact", ptoks |-> sp.left]
             ELSE [err |-> "", mode |-> "exact", ptoks |-> sp.left]
    ELSE [err |-> "", mode |-> "exact", ptoks |-> rest]

find_in_mode(ix, mode, pat) ==
    IF mode = "exact" THEN find_exact(ix, pat) ELSE find_partial(ix, pat)

count_in_mode(ix, mode, pat) ==
    IF mode = "exact" THEN count_exact(ix, pat) ELSE count_partial(ix, pat)

\* The merge loop without the seen set.
AppendAll(out, ms) == out \o ms

RECURSIVE AppendUnseen(_, _)
\* for w in ms: if w not in seen: seen.add(w); out.append(w)
AppendUnseen(out, ms) ==
    IF ms = <<>> THEN out
    ELSE AppendUnseen(IF \E k \in 1..Len(out) : out[k] = Head(ms) THEN out
                      ELSE Append(out, Head(ms)),
                      Tail(ms))

RECURSIVE find_multi_caseless(_, _, _, _)
\* The merge with a seen set that holds the lowercased words.
find_multi_caseless(ix, mode, tokens, out) ==
    IF tokens = <<>> THEN out
    ELSE LET ms == find_in_mode(ix, mode, Head(tokens))
             fresh == SelectSeq([k \in 1..Len(ms) |-> k],
                          LAMBDA k : /\ \A j \in 1..Len(out) : Lower(out[j]) # Lower(ms[k])
                                     /\ \A j \in 1..(k - 1) : Lower(ms[j]) # Lower(ms[k]))
         IN  find_multi_caseless(ix, mode, Tail(tokens),
                                 out \o [k \in 1..Len(fresh) |-> ms[fresh[k]]])

RECURSIVE find_multi(_, _, _, _)
\* for pat in tokens: ms = find(pat); merge
find_multi(ix, mode, tokens, out) ==
    IF tokens = <<>> THEN out
    ELSE find_multi(ix, mode, Tail(tokens),
                    AppendUnseen(out, find_in_mode(ix, mode, Head(tokens))))

Min2(a, b) == IF a <= b THEN a ELSE b

\* matches[offset: offset + limit] shifted by one.
paginate_from_one(matches, has, offset, limit) ==
    IF has THEN SubSeq(matches, offset + 2, Min2(offset + 1 + limit, Len(matches)))
    ELSE matches

\* if limit is not None: matches = matches[offset: offset + limit]
paginate(matches, has, offset, limit) ==
    IF has THEN SubSeq(matches, offset + 1, Min2(offset + limit, Len(matches)))
    ELSE matches

\* COUNT whose count is cut to the page size.
count_reply_paged(count, has, offset, limit) ==
    IF has THEN (IF Min2(count, limit) = 0 THEN NotFound
                 ELSE <<StatusLine(200, "OK", Min2(count, limit)), EndLine>>)
    ELSE IF count = 0 THEN NotFound
    ELSE <<StatusLine(200, "OK", count), EndLine>>

\* The reply to COUNT; the parsed range is at hand and not used.
count_reply(count, has, offset, limit) ==
    IF count = 0 THEN NotFound ELSE <<StatusLine(200, "OK", count), EndLine>>

\* The reply to FIND / FIND_MULTI once the matches are paginated.
find_reply(matches, gzip) ==
    IF Len(matches) = 0 THEN NotFound
    ELSE IF gzip THEN <<StatusLine(200, "OK", 1), GzipLine(matches), EndLine>>
    ELSE <<StatusLine(200, "OK", Len(matches))>> \o WordLines(matches) \o <<EndLine>>

(***************************************************************************)
(* json.loads of a BATCH payload: an array of strings without escapes;     *)
(* any other text is refused (it is no JSON, or no list of str).           *)
(***************************************************************************)
RECURSIVE JsonScan(_, _, _, _, _)
JsonScan(p, i, st, cur, items) ==
    IF i > Len(p) THEN [ok |-> st = "done", items |-> items]
    ELSE LET c == p[i]
             bad == [ok |-> FALSE, items |-> <<>>]
         IN  IF st = "str"
             THEN IF c = "\"" THEN JsonScan(p, i + 1, "after", <<>>, Append(items, cur))
                  ELSE IF c = "\\" THEN bad
                  ELSE JsonScan(p, i + 1, "str", Append(cur, c), items)
             ELSE IF c = " " THEN JsonScan(p, i + 1, st, cur, items)
             ELSE IF st = "start" /\ c = "[" THEN JsonScan(p, i + 1, "first", cur, items)
             ELSE IF st \in {"first", "item"} /\ c = "\"" THEN JsonScan(p, i + 1, "str", <<>>, items)
             ELSE IF st \in {"first", "after"} /\ c = "]" THEN JsonScan(p, i + 1, "done", cur, items)
             ELSE IF st = "after" /\ c = "," THEN JsonScan(p, i + 1, "item", cur, items)
             ELSE bad

json_loads(p) == JsonScan(p, 1, "start", <<>>, <<>>)

\* counts.append(0 if too complex else count(p)) for p in pats
batch_counts(ix, mode, pats, limits) ==
    [i \in 1..Len(pats) |->
        IF is_pattern_too_complex(pats[i], limits.max_questions, limits.max_stars).tc
        THEN 0
        ELSE count_in_mode(ix, mode, pats[i])]

\* The reply to BATCH with the highest index in the status line.
batch_reply_last_index(counts) ==
    <<StatusLine(200, "OK", Len(counts) - 1)>>
    \o [i \in 1..Len(counts) |-> CountLine(i - 1, counts[i])]
    \o <<EndLine>>

\* send(f"200 OK {len(counts)}"); send(f"COUNT {i} {c}") for each; send("END")
batch_reply(counts) ==
    <<StatusLine(200, "OK", Len(counts))>>
    \o [i \in 1..Len(counts) |-> CountLine(i - 1, counts[i])]
    \o <<EndLine>>

(***************************************************************************)
(* STATS: one "key value" line per counter, the word count, the pressure   *)
(* flag and one line per key of the complexity histogram.  The lines that  *)
(* report clock time, resident memory and cache sizes are left out: the    *)
(* model holds none of these values.                                       *)
(***************************************************************************)
RECURSIVE Distinct(_, _)
Distinct(s, acc) ==
    IF s = <<>> THEN acc
    ELSE Distinct(Tail(s), IF \E k \in 1..Len(acc) : acc[k] = Head(s) THEN acc
                           ELSE Append(acc, Head(s)))

stats_lines(st, nwords, ump) ==
    LET qs == Distinct(st.hist_q, <<>>)
        ss == Distinct(st.hist_s, <<>>)
        dict == Distinct(qs \o [i \in 1..Len(ss) |-> -1 - ss[i]], <<>>)
    IN  <<StatLine("connections", st.connections),
          StatLine("active_connections", st.active_connections),
          StatLine("requests", st.requests),
          StatLine("find_requests", st.find_requests),
          StatLine("count_requests", st.count_requests),
          StatLine("stats_requests", st.stats_requests),
          StatLine("ok_responses", st.ok_responses),
          StatLine("not_found_responses", st.not_found_responses),
          StatLine("bad_request_responses", st.bad_request_responses),
          StatLine("words_total", nwords),
          StatLine("under_memory_pressure", IF ump THEN 1 ELSE 0)>>
        \o [i \in 1..Len(dict) |->
              IF dict[i] >= 0
              THEN StatLine("complexity_q", Cardinality({k \in 1..Len(st.hist_q) : st.hist_q[k] = dict[i]}))
              ELSE StatLine("complexity_s", Cardinality({k \in 1..Len(st.hist_s) : st.hist_s[k] = -1 - dict[i]}))]

stats_reply(st, nwords, ump) ==
    LET lines == stats_lines(st, nwords, ump)
    IN  <<StatusLine(200, "OK", Len(lines))>> \o lines \o <<EndLine>>

(***************************************************************************)
(* One request.  The handlers return what the request does:                *)
(*   pre     counters incremented before the reply is written,             *)
(*   lines   the reply,                                                    *)
(*   post    counters incremented after the reply is written,              *)
(*   timed   calls of record_request_time,                                 *)
(*   hist    the <<q, s>> bumped in pattern_complexity_hist, or <<>>,      *)
(*   ump     UNDER_MEMORY_PRESSURE after the request,                      *)
(*   matched whether the index was queried,                                *)
(*   next    "loop" (read the next line), "close" (leave the session) or   *)
(*           "raise" (an exception that no handler catches).               *)
(* The environment e holds the process state the request reads: ump, the   *)
(* soft limit being configured (limit_on), this request's observation of   *)
(* the resident size (high), CFG_COMPLEXITY (cfgc), max_pattern_length     *)
(* (maxlen), the default mode, the Stats record and the index; seen is the  *)
(* value of UNDER_MEMORY_PRESSURE that _effective_complexity_limits reads   *)
(* in the threaded server, where other sessions write the flag as well.    *)
(***************************************************************************)
Result(pre, lines, post, timed, next, ump) ==
    [pre |-> pre, lines |-> lines, post |-> post, timed |-> timed, next |-> next,
     ump |-> ump, hist |-> <<>>, matched |-> FALSE]

\* A refusal after which the threaded handler leaves its loop.
refuse_and_break(pre, lines, timed, u) ==
    Result(pre, lines, <<"bad_request_responses">>, timed, "close", u)

\* The threaded server's refusals of a line:
\* send("400 BAD-REQUEST ..."); stats.inc('bad_request_responses'); continue
refuse_and_continue(pre, lines, timed, u) ==
    Result(pre, lines, <<"bad_request_responses">>, timed, "loop", u)

\* A read that times out and is followed by the next read.
read_timeout_continue(kind, u) ==
    Result(<<>>, BadRequest("timeout"), <<>>, 0, "loop", u)

\* f.readline() raises socket.timeout: 400 BAD-REQUEST timeout / END, then
\* break (threaded, which counts the refusal) or return (basic).
read_timeout(kind, u) ==
    Result(<<>>, BadRequest("timeout"),
           IF kind = "threaded" THEN <<"bad_request_responses">> ELSE <<>>,
           0, "close", u)

\* server_threaded.handle_connection: a line that is a FIND, FIND_MULTI, COUNT
\* or BATCH with an argument, from the suffixes on.
threaded_query(cmd, rest0, e) ==
    LET enc == accept_encoding(rest0)
        rng == range_suffix(enc.rest)
        md == mode_suffix_threaded(rng.rest, e.mode)
        pat == Join(md.ptoks)
        ump == memory_pressure_handler(e.limit_on, e.high)
        limits == effective_complexity_limits(e.seen, e.cfgc)
        tc == is_pattern_too_complex(pat, limits.max_questions, limits.max_stars)
        hist == <<CountChar(pat, "?"), CountChar(pat, "*")>>
        Bad(reason, timed, u) ==
            refuse_and_continue(<<"requests">>, BadRequest(reason), timed, u)
    IN  IF ~enc.ok THEN Bad("invalid encoding", 1, e.ump)
        ELSE IF rng.st = "invalid" THEN Bad("invalid RANGE", 1, e.ump)
        ELSE IF rng.st = "raise" THEN Result(<<"requests">>, <<>>, <<>>, 0, "raise", e.ump)
        ELSE IF md.err # "" THEN Bad(md.err, 1, e.ump)
        ELSE IF Len(pat) > e.maxlen THEN Bad("pattern too long", 1, ump)
        ELSE IF tc.tc
        THEN refuse_and_continue(<<"requests">>, TooComplex(tc), 1, ump)
        ELSE IF cmd = BATCH
        THEN LET js == json_loads(pat)
             IN  IF ~js.ok
                 THEN [Bad("invalid batch payload", 1, ump) EXCEPT !.hist = hist]
                 ELSE [Result(<<"requests">>,
                              batch_reply(batch_counts(e.ix, md.mode, js.items, limits)),
                              <<>>, 1, "loop", ump)
                          EXCEPT !.hist = hist, !.matched = TRUE]
        ELSE IF cmd = COUNT
        THEN LET count == count_in_mode(e.ix, md.mode, pat)
             IN  [Result(<<"requests", "count_requests">>,
                         count_reply(count, rng.has, rng.offset, rng.limit),
                         IF count = 0 THEN <<"not_found_responses">> ELSE <<"ok_responses">>,
                         1, "loop", ump)
                     EXCEPT !.hist = hist, !.matched = TRUE]
        ELSE IF cmd = FIND_MULTI /\ SplitWs(md.ptoks) = <<>>
        THEN [refuse_and_continue(<<"requests", "find_requests">>,
                                  BadRequest("expected 'FIND_MULTI <pattern1> <pattern2> ...'"),
                                  1, ump)
                 EXCEPT !.hist = hist]
        ELSE LET all == IF cmd = FIND_MULTI
                        THEN find_multi(e.ix, md.mode, SplitWs(md.ptoks), <<>>)
                        ELSE find_in_mode(e.ix, md.mode, pat)
                 matches == paginate(all, rng.has, rng.offset, rng.limit)
             IN  [Result(<<"requests", "find_requests">>,
                         find_reply(matches, enc.gzip),
                         IF Len(matches) = 0 THEN <<"not_found_responses">>
                         ELSE <<"ok_responses">>,
                         1, "loop", ump)
                     EXCEPT !.hist = hist, !.matched = TRUE]

\* server_threaded.handle_connection: the body of the while loop for one raw
\* line that readline() returned.
threaded_request(raw, e) ==
    IF ByteLen(raw) > e.maxlen
    THEN refuse_and_continue(<<>>, BadRequest("pattern too long"), 0, e.ump)
    ELSE IF ~raw.utf8
    THEN refuse_and_continue(<<>>, BadRequest("non-utf8"), 0, e.ump)
    ELSE IF raw.toks = <<<<>>>>
    THEN Result(<<>>, <<>>, <<>>, 0, "loop", e.ump)
    ELSE LET cmd == Upper(raw.toks[1])
         IN  IF cmd = QUIT THEN Result(<<"requests">>, <<>>, <<>>, 0, "close", e.ump)
             ELSE IF cmd = STATS
             THEN Result(<<"requests", "stats_requests">>,
                         stats_reply(IncAll(e.stats, <<"requests", "stats_requests">>),
                                     Len(e.ix.words), e.ump),
                         <<>>, 1, "loop", e.ump)
             ELSE IF \/ cmd \notin {FIND, FIND_MULTI, COUNT, BATCH}
                     \/ Len(raw.toks) < 2
                     \/ Tail(raw.toks) = <<<<>>>>
             THEN refuse_and_continue(<<"requests">>,
                         BadRequest("expected 'FIND <pattern>' or 'COUNT <pattern>' or 'STATS'"),
                         1, e.ump)
             ELSE threaded_query(cmd, Tail(raw.toks), e)

\* server_basic.serve_once: a line that is a FIND, FIND_MULTI or COUNT with an
\* argument, from the suffixes on.
basic_query(cmd, rest0, e) ==
    LET enc == accept_encoding(rest0)
        rng == range_suffix(enc.rest)
        md == mode_suffix_basic(rng.rest)
        pat == Join(md.ptoks)
        ump == memory_pressure_handler(e.limit_on, e.high)
        limits == effective_complexity_limits(ump, e.cfgc)
        tc == is_pattern_too_complex(pat, limits.max_questions, limits.max_stars)
        hist == <<CountChar(pat, "?"), CountChar(pat, "*")>>
        Bad(reason, timed, u) == Result(<<"requests">>, BadRequest(reason), <<>>, timed, "close", u)
    IN  IF ~enc.ok THEN Bad("invalid encoding", 0, e.ump)
        ELSE IF rng.st = "invalid" THEN Bad("invalid RANGE", 0, e.ump)
        ELSE IF rng.st = "raise" THEN Result(<<"requests">>, <<>>, <<>>, 0, "raise", e.ump)
        ELSE IF md.err # "" THEN Bad(md.err, 1, e.ump)
        ELSE IF Len(pat) > e.maxlen THEN Bad("pattern too long", 1, e.ump)
        ELSE IF tc.tc THEN Result(<<"requests">>, TooComplex(tc), <<>>, 1, "close", ump)
        ELSE IF cmd = COUNT
        THEN LET count == count_exact(e.ix, pat)
             IN  [Result(<<"requests", "count_requests">>,
                         count_reply(count, rng.has, rng.offset, rng.limit),
                         IF count = 0 THEN <<"not_found_responses">> ELSE <<"ok_responses">>,
                         1, "close", ump)
                     EXCEPT !.matched = TRUE]
        ELSE IF cmd = FIND_MULTI /\ SplitWs(md.ptoks) = <<>>
        THEN [Result(<<"requests", "find_requests">>,
                     BadRequest("expected 'FIND_MULTI <p1> <p2> ...'"), <<>>, 1, "close", ump)
                 EXCEPT !.hist = hist]
        ELSE LET all == IF cmd = FIND_MULTI
                        THEN find_multi(e.ix, "exact", SplitWs(md.ptoks), <<>>)
                        ELSE find_exact(e.ix, pat)
                 matches == paginate(all, rng.has, rng.offset, rng.limit)
             IN  [Result(<<"requests", "find_requests">>,
                         find_reply(matches, enc.gzip),
                         IF Len(matches) = 0 THEN <<"not_found_responses">>
                         ELSE <<"ok_responses">>,
                         1, "close", ump)
                     EXCEPT !.hist = hist, !.matched = TRUE]

\* serve_once with the loop of handle_connection around it.
serve_until_quit(raw, e) == threaded_request(raw, e)

\* server_basic.serve_once for one raw line that readline() returned.
basic_request(raw, e) ==
    IF ByteLen(raw) > e.maxlen
    THEN Result(<<>>, BadRequest("pattern too long"), <<>>, 0, "close", e.ump)
    ELSE IF ~raw.utf8
    THEN Result(<<>>, BadRequest("non-utf8"), <<>>, 0, "close", e.ump)
    ELSE LET cmd == Upper(raw.toks[1])
         IN  IF cmd = QUIT THEN Result(<<"requests">>, <<>>, <<>>, 0, "close", e.ump)
             ELSE IF cmd = STATS
             THEN Result(<<"requests", "stats_requests">>,
                         stats_reply(IncAll(e.stats, <<"requests", "stats_requests">>),
                                     Len(e.ix.words), e.ump),
                         <<>>, 1, "close", e.ump)
             ELSE IF \/ cmd \notin {FIND, FIND_MULTI, COUNT}
                     \/ Len(raw.toks) < 2
                     \/ Tail(raw.toks) = <<<<>>>>
             THEN Result(<<"requests">>,
                         BadRequest("expected 'FIND <pattern>' or 'COUNT <pattern>' or 'STATS'"),
                         <<>>, 0, "close", e.ump)
             ELSE basic_query(cmd, Tail(raw.toks), e)

handle_request(kind, raw, e) ==
    IF kind = "threaded" THEN threaded_request(raw, e) ELSE basic_request(raw, e)

\* The Stats record after a request that did r and wrote its whole reply.
apply_result(st, r) ==
    LET a == IncAll(IncAll(st, r.pre), r.post)
        b == record_request_time(a, r.timed)
    IN  IF r.hist = <<>> THEN b ELSE BumpHist(b, r.hist[1], r.hist[2])

\* Nothing handled yet.
NoReply ==
    [pre |-> <<>>, lines |-> <<>>, post |-> <<>>, timed |-> 0, next |-> "none",
     ump |-> FALSE, hist |-> <<>>, matched |-> FALSE, obs |-> FALSE, event |-> "none"]


Conns == 1..MaxConns

\* A connection no client has opened yet.  st is where the connection is:
\* "new", "refused", "queued", then the handler's position "reading",
\* "writing", "finally", and "done"; out are the reply lines still to send,
\* log the lines read and written on the socket, exit the way the handler
\* left its loop.
NewConn ==
    [st |-> "new", nread |-> 0, nreq |-> 0, cur |-> 0, out |-> <<>>, post |-> <<>>,
     timed |-> 0, after |-> "loop", exit |-> "", log |-> <<>>]

NoSessions == conns = [c \in Conns |-> NewConn] /\ queue = <<>>

\* main is in the first sock.accept() of its loop, shutdown_evt is clear and
\* no pattern was compiled yet.
MainAccepting == main = [pc |-> "accept", shutdown |-> FALSE] /\ regex_cache = <<>>

(***************************************************************************)
(* The index under study: every corpus of at most MaxWords words of        *)
(* WordPool, every pattern of at most MaxPatLen characters of PatChars.    *)
(***************************************************************************)
WordPool == {<<"a">>, <<"A", "b">>, <<"b", "a">>, <<"Idot">>}
PatChars == {"a", "A", "b", "?", "*"}

SeqsUpTo(S, n) == UNION {[1..k -> S] : k \in 0..n}

Corpora == SeqsUpTo(WordPool, MaxWords)
Patterns == SeqsUpTo(PatChars, MaxPatLen)

\* Strings that were never added and whose bits all collide with added ones.
Collisions ==
    {[letters |-> {}, bigrams |-> {}],
     [letters |-> {"b"}, bigrams |-> {<<"a", "b">>, <<"b", "a">>}]}

NoResult == [op |-> "none", pat |-> <<>>, val |-> <<>>, n |-> 0]

\* WordIndex(words) in a fresh process: the indexes are built and _init_blooms
\* seeds the module-level filters from this corpus.
IndexBuilt(words, coll) ==
    /\ index = WordIndex(words)
    /\ blooms_built = TRUE
    /\ bloom_letters = LettersOf(index.words_lower) \cup coll.letters
    /\ bloom_bigrams = BigramsOf(index.words_lower) \cup coll.bigrams

\* No server runs while the index is studied on its own.
ServerIdle ==
    /\ server = "none"
    /\ cfg = [max_pattern_length |-> 1000, limit_on |-> FALSE, mode |-> "exact",
              max_concurrent_connections |-> 1000, max_workers |-> 50]
    /\ CFG_COMPLEXITY = [max_questions |-> 5000, max_stars |-> 50]
    /\ UNDER_MEMORY_PRESSURE = FALSE
    /\ stats = NewStats
    /\ req = [utf8 |-> TRUE, toks |-> <<<<>>>>]
    /\ rres = NoReply

IndexInit ==
    /\ \E words \in Corpora : \E coll \in Collisions : IndexBuilt(words, coll)
    /\ pattern \in Patterns
    /\ ires = NoResult
    /\ ServerIdle
    /\ NoSessions
    /\ MainAccepting

FindExact ==
    /\ ires.op = "none"
    /\ ires' = [op |-> "find_exact", pat |-> pattern,
                val |-> find_exact(index, pattern), n |-> 0]
    /\ UNCHANGED <<index, blooms_built, bloom_letters, bloom_bigrams, pattern, svars, cvars, mvars>>

CountExact ==
    /\ ires.op = "none"
    /\ ires' = [op |-> "count_exact", pat |-> pattern,
                val |-> <<>>, n |-> count_exact(index, pattern)]
    /\ UNCHANGED <<index, blooms_built, bloom_letters, bloom_bigrams, pattern, svars, cvars, mvars>>

FindPartial ==
    /\ ires.op = "none"
    /\ ires' = [op |-> "find_partial", pat |-> pattern,
                val |-> find_partial(index, pattern), n |-> 0]
    /\ UNCHANGED <<index, blooms_built, bloom_letters, bloom_bigrams, pattern, svars, cvars, mvars>>

CountPartial ==
    /\ ires.op = "none"
    /\ ires' = [op |-> "count_partial", pat |-> pattern,
                val |-> <<>>, n |-> count_partial(index, pattern)]
    /\ UNCHANGED <<index, blooms_built, bloom_letters, bloom_bigrams, pattern, svars, cvars, mvars>>

IndexNext == FindExact \/ CountExact \/ FindPartial \/ CountPartial

SpecIndex == IndexInit /\ [][IndexNext]_vars


(***************************************************************************)
(* A process that constructs a second WordIndex: _init_blooms seeded the   *)
(* module-level filters from the first corpus and returns at once for the  *)
(* second.                                                                 *)
(***************************************************************************)
ReindexCorpora ==
    {<<<<"a">>>>, <<<<"b", "a">>>>, <<<<"A", "b">>, <<"a">>>>, <<<<"longs">>, <<"a", "b">>>>}
ReindexPatterns == SeqsUpTo({"a", "b", "s", "?", "*"}, MaxPatLen)

\* _init_blooms(words_lower) when _blooms_built is already set: nothing is added.
init_blooms_again(built, bloom, added) == IF built THEN bloom ELSE bloom \cup added

ReindexInit ==
    /\ \E words \in ReindexCorpora : IndexBuilt(words, [letters |-> {}, bigrams |-> {}])
    /\ pattern \in ReindexPatterns
    /\ ires = NoResult
    /\ ServerIdle
    /\ NoSessions
    /\ MainAccepting

\* WordIndex(words) for another corpus, later in the same process.
Reindex(words) ==
    /\ ires.op = "none"
    /\ index # WordIndex(words)
    /\ index' = WordIndex(words)
    /\ bloom_letters' =
          init_blooms_again(blooms_built, bloom_letters, LettersOf(WordIndex(words).words_lower))
    /\ bloom_bigrams' =
          init_blooms_again(blooms_built, bloom_bigrams, BigramsOf(WordIndex(words).words_lower))
    /\ blooms_built' = TRUE
    /\ UNCHANGED <<pattern, ires, svars, cvars, mvars>>

ReindexNext == (\E words \in ReindexCorpora : Reindex(words)) \/ IndexNext

SpecReindex == ReindexInit /\ [][ReindexNext]_vars

(***************************************************************************)
(* One request against either server (SpecRequest): the server kind, its   *)
(* configuration and the request line are drawn at the start, Serve*       *)
(* handles the line.                                                       *)
(***************************************************************************)
\* The word list both servers are started with in the request-level checks:
\* lengths interleave, one word occurs twice, one differs in case only.
ServerWords == <<<<"a", "b">>, <<"a">>, <<"A", "b">>, <<"b", "a">>, <<"a", "b">>>>

NoCollisions == [letters |-> {}, bigrams |-> {}]

PatPool == {<<"?", "?">>, <<"a", "*">>, <<"b", "a">>, <<"x">>}

Dec(n) == <<AsciiDigits[n + 1]>>

ModeSuffixes == {<<>>, <<KwMode, ExactWord>>, <<KwMode, PartialWord>>}
RangeSuffixes ==
    {<<>>} \cup {<<KwRange, Dec(o), Dec(l)>> : o \in 0..MaxOff, l \in 0..MaxLim}
EncSuffixes == {<<>>, <<KwEncoding, GzipWord>>}

Utf8Line(toks) == [utf8 |-> TRUE, toks |-> toks]

\* FIND / COUNT <pattern> and FIND_MULTI <p1> ... with the suffixes in the
\* order the parser strips them from the right.
QueryLines ==
    {Utf8Line(h \o m \o r \o g) :
        h \in {<<c, p>> : c \in {FIND, COUNT}, p \in PatPool}
              \cup {<<FIND_MULTI>> \o ps : ps \in SeqsUpTo(PatPool, MaxMulti) \ {<<>>}},
        m \in ModeSuffixes, r \in RangeSuffixes, g \in EncSuffixes}

Quote == "\""
BatchPayload(ps) ==
    IF Len(ps) = 1 THEN <<"[", Quote>> \o ps[1] \o <<Quote, "]">>
    ELSE <<"[", Quote>> \o ps[1] \o <<Quote, ",", Quote>> \o ps[2] \o <<Quote, "]">>

\* The other commands, and lines that are refused or break the handler.
OtherLines ==
    {Utf8Line(t) : t \in
        {<<STATS>>, <<QUIT>>, <<Lower(QUIT)>>, <<<<>>>>, <<<<"P", "I", "N", "G">>>>,
         <<FIND>>, <<FIND, <<>>>>, <<Lower(FIND), <<"b", "a">>>>,
         <<FIND, <<"b", "a">>, KwMode, <<"f", "u", "z", "z", "y">>>>,
         <<FIND, <<"b", "a">>, KwMode, Upper(ExactWord)>>,
         <<FIND, <<"b", "a">>, KwEncoding, <<"b", "r">>>>,
         <<FIND, <<"?", "?">>, KwRange, <<"1">>>>,
         <<FIND, <<"?", "?">>, KwRange, <<"-", "1">>, <<"1">>>>,
         <<FIND, <<"?", "?">>, KwRange, <<"sup2">>, <<"1">>>>,
         <<FIND, <<"?", "?">>, KwRange, <<"1">>, <<"1", "0">>>>,
         <<FIND, <<"?", "?">>, KwRange, <<"0">>, <<"2">>, KwMode, ExactWord>>,
         <<FIND_MULTI, <<>>, <<>>>>,
         <<BATCH, BatchPayload(<<<<"?", "?">>>>)>>,
         <<BATCH, BatchPayload(<<<<"a", "*">>, <<"?", "?", "?">>>>), KwMode, ExactWord>>,
         <<BATCH, <<"[", "]">>>>,
         <<BATCH, <<"[", "1", "]">>>>}}
    \cup {[utf8 |-> FALSE, toks |-> <<FIND, <<"a">>>>]}

\* FIND with all three suffixes in the order of the protocol grammar:
\* RANGE, then --mode, then --accept-encoding.
GrammarOrderLines ==
    {Utf8Line(<<FIND, p, KwRange, Dec(o), Dec(l), KwMode, m, KwEncoding, GzipWord>>) :
        p \in PatPool, o \in {0, 1}, l \in {MaxLim}, m \in {ExactWord, PartialWord}}

RequestLines == QueryLines \cup OtherLines \cup GrammarOrderLines

\* Configurations: the defaults, and a file that lowers the limits and sets a
\* memory soft limit.
Settings ==
    {[max_pattern_length |-> 1000, limit_on |-> FALSE,
      cfgc |-> [max_questions |-> 5000, max_stars |-> 50]],
     [max_pattern_length |-> 40, limit_on |-> TRUE,
      cfgc |-> [max_questions |-> 2, max_stars |-> 1]]}

\* The environment of a request that observes high and whose limit lookup
\* reads seen in the pressure flag.
EnvSeen(high, seen) ==
    [ump |-> UNDER_MEMORY_PRESSURE, limit_on |-> cfg.limit_on, high |-> high,
     cfgc |-> CFG_COMPLEXITY, maxlen |-> cfg.max_pattern_length, mode |-> cfg.mode,
     stats |-> stats, ix |-> index, seen |-> seen]

\* The environment of a request that no other session interferes with: the
\* lookup reads what the request's own observation wrote.
Env(high) == EnvSeen(high, memory_pressure_handler(cfg.limit_on, high))

Observations == IF cfg.limit_on THEN BOOLEAN ELSE {FALSE}

RequestInit ==
    /\ IndexBuilt(ServerWords, NoCollisions)
    /\ pattern = <<>>
    /\ ires = NoResult
    /\ server \in {"basic", "threaded"}
    /\ \E s \in Settings : \E m \in {"exact", "partial"} :
          /\ server = "basic" => m = "exact"
          /\ cfg = [max_pattern_length |-> s.max_pattern_length, limit_on |-> s.limit_on,
                    mode |-> m, max_concurrent_connections |-> 1000, max_workers |-> 50]
          /\ CFG_COMPLEXITY = s.cfgc
    /\ UNDER_MEMORY_PRESSURE = FALSE
    /\ stats = NewStats
    /\ req \in RequestLines
    /\ rres = NoReply
    /\ NoSessions
    /\ MainAccepting

\* What the session saw of the request: the handler's result, whether the
\* resident size was observed above the soft limit, and what readline() did
\* (event: it returned the "line", or it ran into the "timeout").
Observed(r, high) ==
    [pre |-> r.pre, lines |-> r.lines, post |-> r.post, timed |-> r.timed,
     next |-> r.next, ump |-> r.ump, hist |-> r.hist, matched |-> r.matched, obs |-> high,
     event |-> "line"]

ServeDone(r, high) ==
    /\ rres' = Observed(r, high)
    /\ stats' = apply_result(stats, r)
    /\ UNDER_MEMORY_PRESSURE' = r.ump

Served(kind) ==
    /\ server = kind
    /\ rres.next = "none"
    /\ \E high \in Observations : ServeDone(handle_request(kind, req, Env(high)), high)
    /\ UNCHANGED <<index, blooms_built, bloom_letters, bloom_bigrams, pattern, ires,
                   server, cfg, CFG_COMPLEXITY, req, cvars, mvars>>

ServeBasic == Served("basic")
ServeThreaded == Served("threaded")

TimeoutDone(r) ==
    /\ rres' = [Observed(r, FALSE) EXCEPT !.event = "timeout"]
    /\ stats' = apply_result(stats, r)

\* The client sends no full line within request_timeout.
ReadTimeout ==
    /\ rres.next = "none"
    /\ TimeoutDone(read_timeout(server, UNDER_MEMORY_PRESSURE))
    /\ UNCHANGED <<index, blooms_built, bloom_letters, bloom_bigrams, pattern, ires,
                   server, cfg, CFG_COMPLEXITY, UNDER_MEMORY_PRESSURE, req, cvars, mvars>>

RequestNext == ServeBasic \/ ServeThreaded \/ ReadTimeout

SpecRequest == RequestInit /\ [][RequestNext]_vars

(***************************************************************************)
(* The complexity guard under every configured limit (SpecLimits): the     *)
(* configuration file sets max_questions and max_stars without validation, *)
(* a memory soft limit is set, and one FIND request is handled.            *)
(***************************************************************************)
MaxConfigured == 2

ConfiguredLimits == [max_questions : 0..MaxConfigured, max_stars : 0..MaxConfigured]

GuardLines ==
    {Utf8Line(<<FIND, p>>) : p \in SeqsUpTo({"?", "*", "a"}, MaxPatLen) \ {<<>>}}

LimitsInit ==
    /\ IndexBuilt(ServerWords, NoCollisions)
    /\ pattern = <<>>
    /\ ires = NoResult
    /\ server \in {"basic", "threaded"}
    /\ cfg = [max_pattern_length |-> 1000, limit_on |-> TRUE, mode |-> "exact",
              max_concurrent_connections |-> 1000, max_workers |-> 50]
    /\ CFG_COMPLEXITY \in ConfiguredLimits
    /\ UNDER_MEMORY_PRESSURE = FALSE
    /\ stats = NewStats
    /\ req \in GuardLines
    /\ rres = NoReply
    /\ NoSessions
    /\ MainAccepting

LimitsNext == ServeBasic \/ ServeThreaded

SpecLimits == LimitsInit /\ [][LimitsNext]_vars

(***************************************************************************)
(* The threaded server (Spec): the acceptor thread of main, the executor's *)
(* queue and worker threads, and handle_connection for every connection.   *)
(***************************************************************************)
\* The lines a client sends in the concurrency checks.
SessionLines ==
    {Utf8Line(t) : t \in
        {<<FIND, <<"b", "a">>>>, <<<<>>>>, <<QUIT>>,
         <<FIND, <<"?", "?">>, KwRange, <<"sup2">>, <<"1">>>>}}

Running(c) == conns[c].st \in {"reading", "writing", "finally"}

RECURSIVE LinesRead(_)
\* The lines the clients have sent so far, over the connections 1..n.
LinesRead(n) == IF n = 0 THEN 0 ELSE conns[n].nread + LinesRead(n - 1)

Init ==
    /\ IndexBuilt(ServerWords, NoCollisions)
    /\ pattern = <<>>
    /\ ires = NoResult
    /\ server = "threaded"
    /\ \E cap \in 1..MaxConns : \E w \in 1..MaxConns :
          cfg = [max_pattern_length |-> 1000, limit_on |-> FALSE, mode |-> "exact",
                 max_concurrent_connections |-> cap, max_workers |-> w]
    /\ CFG_COMPLEXITY = [max_questions |-> 5000, max_stars |-> 50]
    /\ UNDER_MEMORY_PRESSURE = FALSE
    /\ stats = NewStats
    /\ req = [utf8 |-> TRUE, toks |-> <<<<>>>>]
    /\ rres = NoReply
    /\ NoSessions
    /\ MainAccepting

\* sock.accept() returns the next client; connections are numbered in the
\* order they arrive.
Arrives(c) == conns[c].st = "new" /\ \A d \in 1..(c - 1) : conns[d].st # "new"

\* continue, or the end of the loop body: `while not shutdown_evt.is_set()`
\* either enters sock.accept() again or leaves the loop for the finally.
loop_test(m) == IF m.shutdown THEN [m EXCEPT !.pc = "drain"] ELSE m

\* The backpressure test of the accept loop.
at_capacity(st, c) ==
    c.max_concurrent_connections > 0 /\ st.active_connections >= c.max_concurrent_connections

\* main: the cap is reached: 503 BUSY 0 / END, close, continue.
AcceptBusy(c) ==
    /\ main.pc = "accept"
    /\ Arrives(c)
    /\ at_capacity(stats, cfg)
    /\ conns' = [conns EXCEPT ![c].st = "refused",
                              ![c].log = [i \in 1..Len(Busy) |->
                                            [e |-> "write", k |-> 0, end |-> Busy[i] = EndLine]]]
    /\ main' = loop_test(main)
    /\ UNCHANGED <<ivars, regex_cache, svars, queue>>

\* main: executor.submit(handle_connection, conn, ...).
AcceptSubmit(c) ==
    /\ main.pc = "accept"
    /\ Arrives(c)
    /\ ~at_capacity(stats, cfg)
    /\ conns' = [conns EXCEPT ![c].st = "queued"]
    /\ queue' = Append(queue, c)
    /\ main' = loop_test(main)
    /\ UNCHANGED <<ivars, regex_cache, svars>>

\* A worker thread takes the oldest work item and enters handle_connection
\* up to stats.connection_opened(); conn.settimeout and conn.makefile before
\* it make no system call that fails on an accepted socket.
Start(c) ==
    /\ queue # <<>>
    /\ c = Head(queue)
    /\ Cardinality({d \in Conns : Running(d)}) < cfg.max_workers
    /\ queue' = Tail(queue)
    /\ conns' = [conns EXCEPT ![c].st = "reading"]
    /\ stats' = connection_opened(stats)
    /\ UNCHANGED <<ivars, mvars, server, cfg, CFG_COMPLEXITY, UNDER_MEMORY_PRESSURE, req, rres>>

\* Where the handler is after a request was handled up to its first send.
after_request(r) ==
    IF r.next = "raise" THEN "finally"
    ELSE IF r.lines # <<>> THEN "writing"
    ELSE IF r.next = "close" THEN "finally"
    ELSE "reading"

\* The connection after its handler took a line up to the first send of the
\* reply r; a blank line is no request and leaves no trace.
conn_after_read(cn, r) ==
    [st |-> after_request(r), nread |-> cn.nread + 1,
     nreq |-> cn.nreq + (IF r.lines = <<>> /\ r.next = "loop" THEN 0 ELSE 1),
     cur |-> cn.nreq + (IF r.lines = <<>> /\ r.next = "loop" THEN 0 ELSE 1),
     out |-> r.lines, post |-> r.post, timed |-> r.timed, after |-> r.next,
     exit |-> IF r.next = "raise" THEN "raise"
              ELSE IF r.next = "close" /\ r.lines = <<>> THEN "quit"
              ELSE cn.exit,
     log |-> IF r.lines = <<>> /\ r.next = "loop" THEN cn.log
             ELSE Append(cn.log, [e |-> "read", k |-> cn.nreq + 1, end |-> FALSE])]

\* The counters after the part of the loop body that precedes the first send.
stats_after_read(st, r) ==
    IF r.hist = <<>> THEN IncAll(st, r.pre)
    ELSE BumpHist(IncAll(st, r.pre), r.hist[1], r.hist[2])

ReadDone(c, r) ==
    /\ conns' = [conns EXCEPT ![c] = conn_after_read(conns[c], r)]
    /\ stats' = stats_after_read(stats, r)
    /\ UNDER_MEMORY_PRESSURE' = r.ump

\* f.readline() returns a line and the loop body runs up to its first send.
Read(c) ==
    /\ conns[c].st = "reading"
    /\ LinesRead(MaxConns) < MaxRequests
    /\ \E raw \in SessionLines : ReadDone(c, handle_request(server, raw, Env(FALSE)))
    /\ UNCHANGED <<ivars, mvars, server, cfg, CFG_COMPLEXITY, req, rres, queue>>

\* A reply whose first line only is sent before the handler reads again.
after_send_first_line(rest, after) == IF after = "close" THEN "finally" ELSE "reading"

\* Where the handler is after a send: in the reply until its last line has
\* gone out, then at break or continue.
after_send(rest, after) ==
    IF rest # <<>> THEN "writing"
    ELSE IF after = "close" THEN "finally"
    ELSE "reading"

\* send(...) of the next line of the reply; after the last one the counters
\* of the reply are bumped.
Write(c) ==
    /\ conns[c].st = "writing"
    /\ LET l == Head(conns[c].out)
           rest == Tail(conns[c].out)
       IN  /\ conns' = [conns EXCEPT ![c].out = rest,
                                     ![c].st = after_send(rest, conns[c].after),
                                     ![c].log = Append(@, [e |-> "write", k |-> conns[c].cur,
                                                           end |-> l = EndLine])]
           /\ stats' = IF rest = <<>>
                       THEN record_request_time(IncAll(stats, conns[c].post), conns[c].timed)
                       ELSE stats
    /\ UNCHANGED <<ivars, mvars, server, cfg, CFG_COMPLEXITY, UNDER_MEMORY_PRESSURE, req, rres, queue>>

\* conn.sendall raises BrokenPipeError / ConnectionResetError: the client is
\* gone; the except clause is reached.
SendError(c) ==
    /\ conns[c].st = "writing"
    /\ conns' = [conns EXCEPT ![c].st = "finally", ![c].exit = "error"]
    /\ UNCHANGED <<ivars, mvars, svars, queue>>

TimedOut(c, r) ==
    conns' = [conns EXCEPT ![c].st = "writing", ![c].cur = 0,
                           ![c].out = r.lines, ![c].post = r.post,
                           ![c].timed = r.timed, ![c].after = r.next,
                           ![c].exit = "timeout"]

\* f.readline() raises socket.timeout: 400 timeout / END, then break.
Timeout(c) ==
    /\ conns[c].st = "reading"
    /\ TimedOut(c, read_timeout(server, UNDER_MEMORY_PRESSURE))
    /\ UNCHANGED <<ivars, mvars, svars, queue>>

\* f.readline() returns b"": break.
Eof(c) ==
    /\ conns[c].st = "reading"
    /\ conns' = [conns EXCEPT ![c].st = "finally", ![c].exit = "eof"]
    /\ UNCHANGED <<ivars, mvars, svars, queue>>

\* f.readline() raises ConnectionResetError.
ReadError(c) ==
    /\ conns[c].st = "reading"
    /\ conns' = [conns EXCEPT ![c].st = "finally", ![c].exit = "error"]
    /\ UNCHANGED <<ivars, mvars, svars, queue>>

\* finally: stats.connection_closed(); the worker thread is free again.
Finally(c) ==
    /\ conns[c].st = "finally"
    /\ conns' = [conns EXCEPT ![c].st = "done"]
    /\ stats' = connection_closed(stats)
    /\ UNCHANGED <<ivars, mvars, server, cfg, CFG_COMPLEXITY, UNDER_MEMORY_PRESSURE, req, rres, queue>>

Next ==
    \/ \E c \in Conns : AcceptBusy(c)
    \/ \E c \in Conns : AcceptSubmit(c)
    \/ \E c \in Conns : Start(c)
    \/ \E c \in Conns : Read(c)
    \/ \E c \in Conns : Write(c)
    \/ \E c \in Conns : SendError(c)
    \/ \E c \in Conns : Timeout(c)
    \/ \E c \in Conns : Eof(c)
    \/ \E c \in Conns : ReadError(c)
    \/ \E c \in Conns : Finally(c)

Spec == Init /\ [][Next]_vars

(***************************************************************************)
(* The pressure flag under concurrent sessions (SpecPressure): every       *)
(* session of the threaded server is in its loop; a request is handled in  *)
(* two steps, the two accesses of handle_connection to the process-wide    *)
(* flag: _memory_pressure_handler(stats) writes it, and                    *)
(* _effective_complexity_limits() reads it a few statements later.         *)
(***************************************************************************)
\* The lines the clients send: queries, which reach both accesses.
PressureLines ==
    {Utf8Line(t) : t \in
        {<<FIND, <<"?", "?">>>>, <<COUNT, <<"b", "a">>>>,
         <<FIND_MULTI, <<"a", "*">>, <<"a", "*">>>>}}

\* A session waiting in readline(); line, obs and limits are those of its
\* last request, reply the lines it answered.
IdleSession ==
    [st |-> "reading", nread |-> 0, line |-> Utf8Line(<<<<>>>>), obs |-> FALSE,
     limits |-> [max_questions |-> 0, max_stars |-> 0], reply |-> <<>>]

RECURSIVE OpenedTimes(_, _)
OpenedTimes(st, n) == IF n = 0 THEN st ELSE OpenedTimes(connection_opened(st), n - 1)

PressureInit ==
    /\ IndexBuilt(ServerWords, NoCollisions)
    /\ pattern = <<>>
    /\ ires = NoResult
    /\ server = "threaded"
    /\ \E m \in {"exact", "partial"} :
          cfg = [max_pattern_length |-> 1000, limit_on |-> TRUE, mode |-> m,
                 max_concurrent_connections |-> 1000, max_workers |-> 50]
    /\ CFG_COMPLEXITY = [max_questions |-> 2, max_stars |-> 1]
    /\ UNDER_MEMORY_PRESSURE = FALSE
    /\ stats = OpenedTimes(NewStats, MaxConns)
    /\ req = [utf8 |-> TRUE, toks |-> <<<<>>>>]
    /\ rres = NoReply
    /\ conns = [c \in Conns |-> IdleSession]
    /\ queue = <<>>
    /\ MainAccepting

\* The session reads a line and runs the loop body up to and including
\* _memory_pressure_handler(stats): it observes the resident size above the
\* soft limit (high) or not and stores that in the flag.
Observe(c) ==
    /\ conns[c].st = "reading"
    /\ LinesRead(MaxConns) < MaxRequests
    /\ \E raw \in PressureLines : \E high \in BOOLEAN :
          /\ conns' = [conns EXCEPT ![c].st = "observed", ![c].nread = @ + 1,
                                    ![c].line = raw, ![c].obs = high]
          /\ UNDER_MEMORY_PRESSURE' = memory_pressure_handler(cfg.limit_on, high)
    /\ UNCHANGED <<ivars, mvars, server, cfg, CFG_COMPLEXITY, stats, req, rres, queue>>

Validated(c, limits, r) ==
    /\ conns' = [conns EXCEPT ![c].st = "reading", ![c].limits = limits,
                              ![c].reply = r.lines]
    /\ stats' = apply_result(stats, r)

\* The rest of the loop body: _effective_complexity_limits() reads the flag,
\* the pattern is validated against what it returns, the reply is sent.
Validate(c) ==
    /\ conns[c].st = "observed"
    /\ Validated(c, effective_complexity_limits(UNDER_MEMORY_PRESSURE, CFG_COMPLEXITY),
                 threaded_request(conns[c].line, EnvSeen(conns[c].obs, UNDER_MEMORY_PRESSURE)))
    /\ UNCHANGED <<ivars, mvars, server, cfg, CFG_COMPLEXITY, UNDER_MEMORY_PRESSURE, req, rres, queue>>

PressureNext == \E c \in Conns : Observe(c) \/ Validate(c)

SpecPressure == PressureInit /\ [][PressureNext]_vars

(***************************************************************************)
(* Independent sessions (SpecSessions): the sessions of SpecPressure on a  *)
(* server that was started without a memory soft limit.                    *)
(***************************************************************************)
SessionsInit ==
    /\ IndexBuilt(ServerWords, NoCollisions)
    /\ pattern = <<>>
    /\ ires = NoResult
    /\ server = "threaded"
    /\ \E m \in {"exact", "partial"} :
          cfg = [max_pattern_length |-> 1000, limit_on |-> FALSE, mode |-> m,
                 max_concurrent_connections |-> 1000, max_workers |-> 50]
    /\ CFG_COMPLEXITY = [max_questions |-> 2, max_stars |-> 1]
    /\ UNDER_MEMORY_PRESSURE = FALSE
    /\ stats = OpenedTimes(NewStats, MaxConns)
    /\ req = [utf8 |-> TRUE, toks |-> <<<<>>>>]
    /\ rres = NoReply
    /\ conns = [c \in Conns |-> IdleSession]
    /\ queue = <<>>
    /\ MainAccepting

SpecSessions == SessionsInit /\ [][PressureNext]_vars

(***************************************************************************)
(* The request mode of a session (SpecModes): req_mode is a local of       *)
(* handle_connection that lives across the iterations of its loop; every   *)
(* request that passes the syntax check assigns default_mode to it before  *)
(* the suffixes are parsed.                                                *)
(***************************************************************************)
ModeLines ==
    {Utf8Line(<<c, <<"a">>>> \o m) :
        c \in {FIND, COUNT},
        m \in {<<>>, <<KwMode, ExactWord>>, <<KwMode, PartialWord>>}}

\* A session in readline() that has read no request: req_mode is not bound.
ModeSession ==
    [st |-> "reading", nread |-> 0, line |-> Utf8Line(<<<<>>>>), reply |-> <<>>,
     req_mode |-> "unbound", prior |-> "unbound"]

ModesInit ==
    /\ IndexBuilt(ServerWords, NoCollisions)
    /\ pattern = <<>>
    /\ ires = NoResult
    /\ server = "threaded"
    /\ \E m \in {"exact", "partial"} :
          cfg = [max_pattern_length |-> 1000, limit_on |-> FALSE, mode |-> m,
                 max_concurrent_connections |-> 1000, max_workers |-> 50]
    /\ CFG_COMPLEXITY = [max_questions |-> 5000, max_stars |-> 50]
    /\ UNDER_MEMORY_PRESSURE = FALSE
    /\ stats = OpenedTimes(NewStats, MaxConns)
    /\ req = [utf8 |-> TRUE, toks |-> <<<<>>>>]
    /\ rres = NoReply
    /\ conns = [c \in Conns |-> ModeSession]
    /\ queue = <<>>
    /\ MainAccepting

\* req_mode is left as the previous request of the session set it.
req_mode_kept(req_mode, default_mode) == req_mode

\* req_mode = default_mode
req_mode_reset(req_mode, default_mode) == default_mode

\* The session after one iteration of the loop on the query raw: the mode the
\* request starts with, the reply, and req_mode as the suffix left it.
session_after_query(s, raw, e) ==
    LET start == req_mode_reset(s.req_mode, e.mode)
    IN  [s EXCEPT !.nread = @ + 1, !.line = raw,
                  !.reply = threaded_request(raw, [e EXCEPT !.mode = start]).lines,
                  !.prior = s.req_mode,
                  !.req_mode = mode_suffix_threaded(Tail(raw.toks), start).mode]

\* A session reads a query and answers it.
ModeRequest(c) ==
    /\ conns[c].st = "reading"
    /\ LinesRead(MaxConns) < MaxRequests
    /\ \E raw \in ModeLines :
          /\ conns' = [conns EXCEPT ![c] = session_after_query(@, raw, Env(FALSE))]
          /\ stats' = apply_result(stats,
                         threaded_request(raw, [Env(FALSE) EXCEPT
                            !.mode = req_mode_reset(conns[c].req_mode, cfg.mode)]))
    /\ UNCHANGED <<ivars, mvars, server, cfg, CFG_COMPLEXITY, UNDER_MEMORY_PRESSURE,
                   req, rres, queue>>

ModesNext == \E c \in Conns : ModeRequest(c)

SpecModes == ModesInit /\ [][ModesNext]_vars

(***************************************************************************)
(* Shutdown of the threaded server (SpecShutdown): Spec's acceptor, pool   *)
(* and sessions, plus the signal handler that sets shutdown_evt, the       *)
(* accept that times out, and the finally clause of main.  The clients     *)
(* here connect and send no request: a session ends by the read timeout    *)
(* and its reply, by end of stream, or by a socket error.                  *)
(***************************************************************************)
\* SIGINT or SIGTERM is delivered: _sig_handler sets shutdown_evt.  The
\* handler runs between two byte codes of main, wherever main is.
Signal ==
    /\ main.pc \in {"accept", "serving"}
    /\ ~main.shutdown
    /\ main' = [main EXCEPT !.shutdown = TRUE]
    /\ UNCHANGED <<ivars, regex_cache, svars, cvars>>

\* sock.accept() raises socket.timeout after one second: continue, and
\* the loop test is made again.
AcceptTimeout ==
    /\ main.pc = "accept"
    /\ main.shutdown
    /\ main' = loop_test(main)
    /\ UNCHANGED <<ivars, regex_cache, svars, cvars>>

\* executor.shutdown(wait=False): returns at once.
pool_not_waited(q, cs) == TRUE

\* executor.shutdown(wait=True) returns: no work item is queued and no
\* worker thread is in handle_connection.
pool_drained(q, cs) ==
    q = <<>> /\ \A c \in Conns : cs[c].st \notin {"reading", "writing", "finally"}

\* finally: executor.shutdown(wait=True) returns when the pool has run
\* every work item it was handed, then sock.close().  The basic server has
\* no executor and goes straight to sock.close().
Drain ==
    /\ main.pc = "drain"
    /\ pool_drained(queue, conns)
    /\ main' = [main EXCEPT !.pc = "closed"]
    /\ UNCHANGED <<ivars, regex_cache, svars, cvars>>

ShutdownNext ==
    \/ \E c \in Conns : AcceptBusy(c)
    \/ \E c \in Conns : AcceptSubmit(c)
    \/ \E c \in Conns : Start(c)
    \/ \E c \in Conns : Write(c)
    \/ \E c \in Conns : SendError(c)
    \/ \E c \in Conns : Timeout(c)
    \/ \E c \in Conns : Eof(c)
    \/ \E c \in Conns : ReadError(c)
    \/ \E c \in Conns : Finally(c)
    \/ Signal
    \/ AcceptTimeout
    \/ Drain

\* What the code's scheduling guarantees: sock.settimeout(1.0) ends every
\* accept, conn.settimeout(request_timeout) ends every readline, a send
\* returns or raises, the executor starts the oldest work item when a worker
\* is free, and a thread that can run does run.
Fairness ==
    /\ WF_vars(AcceptTimeout)
    /\ WF_vars(Drain)
    /\ \A c \in Conns :
          /\ WF_vars(Start(c))
          /\ WF_vars(Timeout(c) \/ Eof(c) \/ ReadError(c))
          /\ WF_vars(Write(c) \/ SendError(c))
          /\ WF_vars(Finally(c))

SpecShutdown == Init /\ [][ShutdownNext]_vars /\ Fairness

(***************************************************************************)
(* The basic server (SpecBasic): main accepts a connection and runs        *)
(* serve_once on it in the same thread, then accepts the next one.         *)
(***************************************************************************)
BasicInit ==
    /\ IndexBuilt(ServerWords, NoCollisions)
    /\ pattern = <<>>
    /\ ires = NoResult
    /\ server = "basic"
    /\ \E cap \in {1, 1000} :
          cfg = [max_pattern_length |-> 1000, limit_on |-> FALSE, mode |-> "exact",
                 max_concurrent_connections |-> cap, max_workers |-> 1]
    /\ CFG_COMPLEXITY = [max_questions |-> 5000, max_stars |-> 50]
    /\ UNDER_MEMORY_PRESSURE = FALSE
    /\ stats = NewStats
    /\ req = [utf8 |-> TRUE, toks |-> <<<<>>>>]
    /\ rres = NoReply
    /\ NoSessions
    /\ MainAccepting

\* The connection the basic main has accepted, after the backpressure test:
\* 503 BUSY 0 / END and close when the cap is reached, else serve_once runs
\* up to f.readline().
basic_accepted(conn, st, c) ==
    IF at_capacity(st, c)
    THEN [conn EXCEPT !.st = "refused",
                      !.log = [i \in 1..Len(Busy) |->
                                 [e |-> "write", k |-> 0, end |-> Busy[i] = EndLine]]]
    ELSE [conn EXCEPT !.st = "reading"]

\* main: sock.accept() returns a client and the backpressure test runs; a
\* refused client is closed and the loop continues, an admitted one is
\* counted by stats.connection_opened() and served in this same thread.
BasicAccept(c) ==
    /\ main.pc = "accept"
    /\ Arrives(c)
    /\ conns' = [conns EXCEPT ![c] = basic_accepted(@, stats, cfg)]
    /\ stats' = IF at_capacity(stats, cfg) THEN stats ELSE connection_opened(stats)
    /\ main' = IF at_capacity(stats, cfg) THEN loop_test(main)
                ELSE [main EXCEPT !.pc = "serving"]
    /\ UNCHANGED <<ivars, regex_cache, server, cfg, CFG_COMPLEXITY, UNDER_MEMORY_PRESSURE,
                   req, rres, queue>>

\* Where main is once serve_once is over: an exception that serve_once let
\* through passes the try/finally of the loop body and the
\* `except KeyboardInterrupt` of main, and ends the process ("crashed");
\* a return goes back to the loop test.
after_serve_once(m, exit) ==
    IF exit \in {"raise", "error"} THEN [m EXCEPT !.pc = "crashed"]
    ELSE loop_test([m EXCEPT !.pc = "accept"])

\* serve_once leaves `with conn:` by return or by an exception, and main
\* runs finally: stats.connection_closed().
ServeOnceEnds(c) ==
    /\ main.pc = "serving"
    /\ conns[c].st = "finally"
    /\ conns' = [conns EXCEPT ![c].st = "done"]
    /\ stats' = connection_closed(stats)
    /\ main' = after_serve_once(main, conns[c].exit)
    /\ UNCHANGED <<ivars, regex_cache, server, cfg, CFG_COMPLEXITY, UNDER_MEMORY_PRESSURE,
                   req, rres, queue>>

BasicNext ==
    \/ \E c \in Conns : BasicAccept(c)
    \/ \E c \in Conns : Read(c)
    \/ \E c \in Conns : Write(c)
    \/ \E c \in Conns : SendError(c)
    \/ \E c \in Conns : Timeout(c)
    \/ \E c \in Conns : Eof(c)
    \/ \E c \in Conns : ReadError(c)
    \/ \E c \in Conns : ServeOnceEnds(c)
    \/ Signal
    \/ AcceptTimeout
    \/ Drain

SpecBasic == BasicInit /\ [][BasicNext]_vars

(***************************************************************************)
(* The compiled-pattern cache (SpecCache): the sessions of the threaded    *)
(* server look patterns up through index.find_* / count_*, which compile   *)
(* through index._compile_regex_body, and main loads the configuration at  *)
(* start and again whenever the file's mtime has changed.                  *)
(***************************************************************************)
\* @functools.lru_cache(maxsize=256) on index._compile_regex_body.
regex_body_maxsize == 256

\* The largest cache_size a configuration file sets here.
MaxCache == 2

CachePatterns == PatPool \cup {<<"b", "*">>, <<"?", "a">>}

\* The arguments with which a lookup of pat in the given mode calls
\* _compile_regex_body, if it calls it at all.
compile_calls(mode, pat) ==
    IF should_skip_pattern(pat) THEN <<>>
    ELSE IF mode = "exact"
    THEN IF ~HasStar(pat) THEN <<>>
         ELSE <<[body |-> wildcard_to_regex_body(pat, TRUE, FALSE), anchored |-> TRUE]>>
    ELSE IF ~HasStar(pat) /\ AllQuestions(pat) THEN <<>>
    ELSE <<[body |-> wildcard_to_regex_body(pat, HasStar(pat), TRUE), anchored |-> FALSE]>>

\* One call of an lru_cache wrapper of the given maxsize: a hit makes the
\* key the most recent one, a miss stores it and drops the oldest key when
\* the cache is full; maxsize 0 stores nothing.
lru_call(cache, maxsize, key) ==
    LET put == Append(SelectSeq(cache, LAMBDA k : k # key), key)
    IN  IF maxsize = 0 THEN cache
        ELSE IF Len(put) > maxsize THEN Tail(put)
        ELSE put

RECURSIVE lru_calls(_, _, _)
lru_calls(cache, maxsize, keys) ==
    IF keys = <<>> THEN cache
    ELSE lru_calls(lru_call(cache, maxsize, Head(keys)), maxsize, Tail(keys))

\* _memory_pressure_handler: above the soft limit both caches are cleared.
cache_after_pressure(cache, limit_on, high) ==
    IF memory_pressure_handler(limit_on, high) THEN <<>> ELSE cache

CacheInit ==
    /\ IndexBuilt(ServerWords, NoCollisions)
    /\ pattern = <<>>
    /\ ires = NoResult
    /\ server = "threaded"
    /\ \E n \in 0..MaxCache : \E l \in BOOLEAN :
          cfg = [max_pattern_length |-> 1000, limit_on |-> l, mode |-> "exact",
                 max_concurrent_connections |-> 1000, max_workers |-> 50,
                 cache_size |-> n]
    /\ CFG_COMPLEXITY = [max_questions |-> 5000, max_stars |-> 50]
    /\ UNDER_MEMORY_PRESSURE = FALSE
    /\ stats = NewStats
    /\ req = [utf8 |-> TRUE, toks |-> <<<<>>>>]
    /\ rres = NoReply
    /\ NoSessions
    /\ MainAccepting

\* main: the configuration file has a newer mtime: _load_from_file() stores
\* the validated cache_size in cfg and rebinds the module's compile_pattern
\* to a new lru_cache of that size.  compile_pattern is called by
\* ClientHandler.handle_find only, which no request reaches; the cache of
\* index._compile_regex_body is not touched.
LoadFromFile(n) ==
    /\ main.pc = "accept"
    /\ n # cfg.cache_size
    /\ cfg' = [cfg EXCEPT !.cache_size = n]
    /\ UNCHANGED <<ivars, main, regex_cache, server, CFG_COMPLEXITY, UNDER_MEMORY_PRESSURE,
                   stats, req, rres, cvars>>

\* A session serves FIND or COUNT for pat in the given mode: it observes
\* the resident size (high or not), then the index looks the pattern up.
Lookup(mode, pat, high) ==
    /\ UNDER_MEMORY_PRESSURE' = memory_pressure_handler(cfg.limit_on, high)
    /\ regex_cache' = lru_calls(cache_after_pressure(regex_cache, cfg.limit_on, high),
                                regex_body_maxsize, compile_calls(mode, pat))
    /\ UNCHANGED <<ivars, main, server, cfg, CFG_COMPLEXITY, stats, req, rres, cvars>>

CacheNext ==
    \/ \E n \in 0..MaxCache : LoadFromFile(n)
    \/ \E mode \in {"exact", "partial"} : \E pat \in CachePatterns : \E high \in BOOLEAN :
          Lookup(mode, pat, high)

SpecCache == CacheInit /\ [][CacheNext]_vars

(***************************************************************************)
(* The pattern-complexity histogram under concurrent sessions (SpecHist):  *)
(* every session of the threaded server is in its loop; a request that     *)
(* passed the complexity guard runs the two statements                     *)
(*     stats.pattern_complexity_hist[f"q_{q}"] += 1                        *)
(*     stats.pattern_complexity_hist[f"s_{s}"] += 1                        *)
(* Neither takes stats._lock: each is a load of the bucket, an addition    *)
(* and a store of the bucket, and another thread may run between the load  *)
(* and the store.                                                          *)
(***************************************************************************)
\* The keys of the histogram: f"q_{k}" and f"s_{k}".
HistKeys == {"q", "s"} \X (0..(2 * MaxPatLen + 1))

\* EnhancedStats.__init__: the counters and an empty defaultdict(int), which
\* reads 0 for a key never stored.
NewEnhancedStats ==
    [a \in DOMAIN NewStats \cup {"pattern_complexity_hist"} |->
        IF a = "pattern_complexity_hist" THEN [key \in HistKeys |-> 0] ELSE NewStats[a]]

\* A session waiting in readline(): q and s are the counts of its current
\* request, loaded the bucket value it read, accepted the <<q, s>> of its
\* requests that passed the guard and ran both statements.
HistSession ==
    [st |-> "reading", nread |-> 0, q |-> 0, s |-> 0, loaded |-> 0, accepted |-> <<>>]

HistInit ==
    /\ IndexBuilt(ServerWords, NoCollisions)
    /\ pattern = <<>>
    /\ ires = NoResult
    /\ server = "threaded"
    /\ cfg = [max_pattern_length |-> 1000, limit_on |-> FALSE, mode |-> "exact",
              max_concurrent_connections |-> 1000, max_workers |-> 50]
    /\ CFG_COMPLEXITY = [max_questions |-> 2, max_stars |-> 1]
    /\ UNDER_MEMORY_PRESSURE = FALSE
    /\ stats = NewEnhancedStats
    /\ req = [utf8 |-> TRUE, toks |-> <<<<>>>>]
    /\ rres = NoReply
    /\ conns = [c \in Conns |-> HistSession]
    /\ queue = <<>>
    /\ MainAccepting

\* The session after the loop body was run on a line up to the guard: a
\* request that is refused, or is no query, goes back to readline().
session_after_guard(cn, r) ==
    IF r.hist = <<>> THEN [cn EXCEPT !.nread = @ + 1]
    ELSE [cn EXCEPT !.nread = @ + 1, !.st = "load_q", !.q = r.hist[1], !.s = r.hist[2]]

\* f.readline() returns a line; the loop body runs up to the histogram.
ReadToGuard(c) ==
    /\ conns[c].st = "reading"
    /\ LinesRead(MaxConns) < MaxRequests
    /\ \E raw \in PressureLines :
          conns' = [conns EXCEPT ![c] = session_after_guard(conns[c],
                                            threaded_request(raw, Env(FALSE)))]
    /\ UNCHANGED <<ivars, mvars, svars, queue>>

bucket_key(cn) == IF cn.st \in {"load_q", "store_q"} THEN <<"q", cn.q>> ELSE <<"s", cn.s>>

\* BINARY_SUBSCR: the thread reads the bucket.
LoadBucket(c) ==
    /\ conns[c].st \in {"load_q", "load_s"}
    /\ conns' = [conns EXCEPT ![c].loaded = stats.pattern_complexity_hist[bucket_key(conns[c])],
                              ![c].st = IF conns[c].st = "load_q" THEN "store_q" ELSE "store_s"]
    /\ UNCHANGED <<ivars, mvars, svars, queue>>

\* The bucket after STORE_SUBSCR of what the thread read, plus one.
store_bucket(hist, key, loaded) == [hist EXCEPT ![key] = loaded + 1]

\* BINARY_OP += and STORE_SUBSCR; after the second statement the rest of
\* the loop body runs and the session reads again.
StoreBucket(c) ==
    /\ conns[c].st \in {"store_q", "store_s"}
    /\ stats' = [stats EXCEPT !.pattern_complexity_hist =
                                  store_bucket(@, bucket_key(conns[c]), conns[c].loaded)]
    /\ conns' = IF conns[c].st = "store_q"
                THEN [conns EXCEPT ![c].st = "load_s"]
                ELSE [conns EXCEPT ![c].st = "reading",
                                   ![c].accepted = Append(@, <<conns[c].q, conns[c].s>>)]
    /\ UNCHANGED <<ivars, mvars, server, cfg, CFG_COMPLEXITY, UNDER_MEMORY_PRESSURE, req, rres,
                   queue>>

HistNext == \E c \in Conns : ReadToGuard(c) \/ LoadBucket(c) \/ StoreBucket(c)

SpecHist == HistInit /\ [][HistNext]_vars

(***************************************************************************)
(* Claims about the index (checked under SpecIndex).                       *)
(***************************************************************************)
IsFind == ires.op \in {"find_exact", "find_partial"}

\* C5: count_exact(p) is the length of find_exact(p) and count_partial(p) the
\* length of find_partial(p), for every corpus and pattern, on every path.
C5_CountIsLenOfFind ==
    /\ ires.op = "count_exact" => ires.n = Len(find_exact(index, ires.pat))
    /\ ires.op = "count_partial" => ires.n = Len(find_partial(index, ires.pat))

RECURSIVE InCorpusOrder(_, _, _)
\* res is words[i1], words[i2], ... for some i1 < i2 < ... , all >= from.
InCorpusOrder(res, words, from) ==
    IF res = <<>> THEN TRUE
    ELSE LET hits == {i \in from..Len(words) : words[i] = Head(res)}
         IN  /\ hits # {}
             /\ InCorpusOrder(Tail(res), words,
                              1 + CHOOSE i \in hits : \A j \in hits : i <= j)

\* C6: find_exact and find_partial return the matching words in ascending
\* corpus index (word-list insertion order), also when words of different
\* lengths are interleaved in the corpus.
C6_ResultInCorpusOrder == IsFind => InCorpusOrder(ires.val, index.words, 1)

SwapCase(c) ==
    CASE c = "a" -> "A" [] c = "A" -> "a"
      [] c = "b" -> "B" [] c = "B" -> "b"
      [] c = "i" -> "I" [] c = "I" -> "i"
      [] OTHER -> c

\* Every pattern got from pat by changing the case of some of its characters.
CaseVariants(pat) ==
    {q \in [1..Len(pat) -> UNION {{pat[i], SwapCase(pat[i])} : i \in 1..Len(pat)}] :
        \A i \in 1..Len(pat) : q[i] \in {pat[i], SwapCase(pat[i])}}

\* C10: changing the case of any characters of an ASCII pattern changes the
\* result of none of find_exact, find_partial, count_exact, count_partial.
C10_CaseInsensitive ==
    \A q \in CaseVariants(ires.pat) :
        /\ ires.op = "find_exact" => find_exact(index, q) = ires.val
        /\ ires.op = "find_partial" => find_partial(index, q) = ires.val
        /\ ires.op = "count_exact" => count_exact(index, q) = ires.n
        /\ ires.op = "count_partial" => count_partial(index, q) = ires.n

\* An upper-case pattern letter matched a word on the regex path.
C10_Witness ==
    /\ ires.op = "find_exact"
    /\ HasStar(ires.pat)
    /\ "A" \in CharSet(ires.pat)
    /\ ires.val # <<>>


(***************************************************************************)
(* The reference meaning of a wildcard pattern, and the index against it.  *)
(***************************************************************************)
RECURSIVE Matches(_, _)
\* The whole word w matches pat: '?' is exactly one character, '*' any run
\* (the empty one too), any other character itself in either case.
Matches(pat, w) ==
    IF pat = <<>> THEN w = <<>>
    ELSE IF Head(pat) = "*"
         THEN \E k \in 0..Len(w) : Matches(Tail(pat), SubSeq(w, k + 1, Len(w)))
         ELSE /\ w # <<>>
              /\ (Head(pat) = "?" \/ FoldChar(Head(pat)) = FoldChar(Head(w)))
              /\ Matches(Tail(pat), Tail(w))

\* Some contiguous substring of w matches pat.
MatchesWithin(pat, w) ==
    \E s \in 1..(Len(w) + 1) : \E e \in (s - 1)..Len(w) : Matches(pat, SubSeq(w, s, e))

Occurrences(s, w) == Cardinality({i \in 1..Len(s) : s[i] = w})

\* res holds exactly the words of the corpus that satisfy hit, each as often
\* as the corpus holds it.
ExactlyTheWords(res, words, hit(_)) ==
    \A w \in {words[i] : i \in 1..Len(words)} \cup {res[i] : i \in 1..Len(res)} :
        Occurrences(res, w) = IF hit(w) THEN Occurrences(words, w) ELSE 0

\* C32: find_exact returns exactly the words whose whole text matches the
\* pattern case-insensitively ('?' one character, '*' any run), on the
\* position-index path and on the regex path.
C32_FindExactIsReference ==
    ires.op = "find_exact" =>
        ExactlyTheWords(ires.val, index.words, LAMBDA w : Matches(ires.pat, w))

\* The module-level filters hold every letter and bigram of this index's corpus.
SeededFromIndex ==
    /\ LettersOf(index.words_lower) \subseteq bloom_letters
    /\ BigramsOf(index.words_lower) \subseteq bloom_bigrams

\* C33: for a non-empty pattern find_partial returns exactly the words with
\* some contiguous substring matching the pattern case-insensitively; k '?'
\* return every word of at least k characters, and the length pre-filter
\* drops no matching word.
C33_FindPartialIsReference ==
    (ires.op = "find_partial" /\ ires.pat # <<>> /\ SeededFromIndex) =>
        /\ ExactlyTheWords(ires.val, index.words, LAMBDA w : MatchesWithin(ires.pat, w))
        /\ AllQuestions(ires.pat) =>
              ExactlyTheWords(ires.val, index.words, LAMBDA w : Len(w) >= Len(ires.pat))

\* C34: for every index of the process, a later one over another corpus too,
\* should_skip_pattern is true only for patterns that match no word of the
\* index queried, so the pre-filter removes no real match from find_exact,
\* find_partial, count_exact or count_partial.
C34_FilterDropsNoMatch ==
    (ires.op # "none" /\ ires.pat # <<>> /\ should_skip_pattern(ires.pat)) =>
        \A i \in 1..Len(index.words) :
            IF ires.op \in {"find_exact", "count_exact"}
            THEN ~Matches(ires.pat, index.words[i])
            ELSE ~MatchesWithin(ires.pat, index.words[i])

(***************************************************************************)
(* Claims about one request (checked under SpecRequest).                   *)
(***************************************************************************)
\* The server read the line req and handled it.
Handled == rres.next # "none" /\ rres.event = "line"

\* The line is within max_pattern_length and decodes as UTF-8.
WellFormed == req.utf8 /\ ByteLen(req) <= cfg.max_pattern_length

Command == Upper(req.toks[1])

IsDecimal(t) == t # <<>> /\ \A i \in 1..Len(t) : IsAsciiDigit(t[i])

\* toks[i] starts a suffix "RANGE <off> <lim>" that ends the line or is
\* followed by the encoding suffix only.
RangeAt(toks, i) ==
    /\ i >= 3
    /\ i + 2 <= Len(toks)
    /\ toks[i] = KwRange
    /\ IsDecimal(toks[i + 1])
    /\ IsDecimal(toks[i + 2])
    /\ \/ i + 2 = Len(toks)
       \/ i + 4 = Len(toks) /\ toks[i + 3] = KwEncoding

HasRange(toks) == \E i \in 1..Len(toks) : RangeAt(toks, i)
RangePos(toks) == CHOOSE i \in 1..Len(toks) : RangeAt(toks, i)
RangeOff(toks) == int(toks[RangePos(toks) + 1])
RangeLim(toks) == int(toks[RangePos(toks) + 2])
WithoutRange(toks) ==
    SubSeq(toks, 1, RangePos(toks) - 1) \o SubSeq(toks, RangePos(toks) + 3, Len(toks))

\* The lines the running server answers to the line toks under the
\* conditions in which it handled req.
Reply(toks) == handle_request(server, Utf8Line(toks), Env(rres.obs)).lines

IsBad(lines) == lines # <<>> /\ lines[1].code = 400

RECURSIVE BodyWords(_)
\* The words a response carries, one per body line or all in its GZIP line
\* (decoded as the clients decode it).
BodyWords(lines) ==
    IF lines = <<>> THEN <<>>
    ELSE (IF Head(lines).k = "word" THEN Head(lines).w
          ELSE IF Head(lines).k = "gzip"
          THEN decode_gzip_line(Head(lines).w[1])
          ELSE <<>>)
         \o BodyWords(Tail(lines))

Slice(s, off, lim) == [k \in 1..Max2(0, Min2(lim, Len(s) - off)) |-> s[off + k]]

\* C1: every request line a session reads is answered, and the answer ends
\* with the END line (blank lines and QUIT, which ask for no answer, aside).
C1_EveryRequestAnswered ==
    (Handled /\ req.toks # <<<<>>>> /\ ~(req.utf8 /\ Command = QUIT))
        => (rres.lines # <<>> /\ rres.lines[Len(rres.lines)] = EndLine)

\* C7: FIND / FIND_MULTI with "RANGE off lim" answers the slice at positions
\* off..off+lim-1 of what the same request answers without the suffix, in
\* the same order (a request refused without the suffix is refused alike).
C7_RangeIsSlice ==
    (Handled /\ WellFormed /\ Command \in {FIND, FIND_MULTI} /\ HasRange(req.toks))
        => LET full == Reply(WithoutRange(req.toks))
           IN  IF IsBad(full) THEN rres.lines = full
               ELSE /\ rres.lines # <<>>
                    /\ ~IsBad(rres.lines)
                    /\ BodyWords(rres.lines)
                         = Slice(BodyWords(full), RangeOff(req.toks), RangeLim(req.toks))

C7_Witness ==
    /\ Handled /\ WellFormed /\ Command = FIND_MULTI /\ HasRange(req.toks)
    /\ RangeOff(req.toks) = 1
    /\ Len(BodyWords(rres.lines)) = 2
    /\ Len(BodyWords(Reply(WithoutRange(req.toks)))) = 4

KeywordTokens == {KwMode, KwRange, KwEncoding}

\* The pattern tokens of a FIND_MULTI line and the suffixes after them.
FirstKeyword(toks) ==
    IF \E i \in 2..Len(toks) : toks[i] \in KeywordTokens
    THEN CHOOSE i \in 2..Len(toks) :
            toks[i] \in KeywordTokens /\ \A j \in 2..(i - 1) : toks[j] \notin KeywordTokens
    ELSE Len(toks) + 1
PatTokens(toks) == SubSeq(toks, 2, FirstKeyword(toks) - 1)
Suffixes(toks) == SubSeq(toks, FirstKeyword(toks), Len(toks))

RECURSIVE FirstOccurrences(_, _)
FirstOccurrences(s, seen) ==
    IF s = <<>> THEN <<>>
    ELSE IF Head(s) \in seen THEN FirstOccurrences(Tail(s), seen)
    ELSE <<Head(s)>> \o FirstOccurrences(Tail(s), seen \cup {Head(s)})

RECURSIVE FindEach(_, _)
\* The results of FIND p for each p, concatenated.
FindEach(ps, suffix) ==
    IF ps = <<>> THEN <<>>
    ELSE BodyWords(Reply(<<FIND, Head(ps)>> \o suffix)) \o FindEach(Tail(ps), suffix)

\* C8: an accepted FIND_MULTI p1 ... pk answers the results of FIND p1, ...,
\* FIND pk in the same mode, concatenated, each word kept at its first
\* occurrence only.
C8_MultiIsDedupConcat ==
    (/\ Handled /\ WellFormed /\ Command = FIND_MULTI
     /\ \A i \in 1..Len(req.toks) : req.toks[i] # KwRange
     /\ rres.lines # <<>> /\ ~IsBad(rres.lines))
        => BodyWords(rres.lines)
             = FirstOccurrences(FindEach(PatTokens(req.toks), Suffixes(req.toks)), {})

C8_Witness ==
    /\ Handled /\ WellFormed /\ Command = FIND_MULTI
    /\ \A i \in 1..Len(req.toks) : req.toks[i] # KwRange
    /\ Len(PatTokens(req.toks)) = 2
    /\ Len(BodyWords(rres.lines)) = 4
    /\ Len(FindEach(PatTokens(req.toks), Suffixes(req.toks))) = 8

\* C9: COUNT with a valid RANGE suffix answers the status line and count of
\* the same COUNT without the suffix, whatever off and lim.
C9_CountIgnoresRange ==
    (Handled /\ WellFormed /\ Command = COUNT /\ HasRange(req.toks))
        => /\ rres.lines # <<>>
           /\ rres.lines = Reply(WithoutRange(req.toks))

C9_Witness ==
    /\ Handled /\ WellFormed /\ Command = COUNT /\ HasRange(req.toks)
    /\ RangeLim(req.toks) = 1
    /\ rres.lines[1].code = 200
    /\ rres.lines[1].n = 4

(***************************************************************************)
(* Claims about the framing of replies and about refusals (SpecRequest).   *)
(***************************************************************************)
\* A FIND / FIND_MULTI / COUNT line whose suffixes are well formed.
IsQuery == req \in QueryLines

WantsGzip(toks) == \E i \in 1..Len(toks) : toks[i] = KwEncoding

\* The mode the request names, or the server's default.
ReqMode(toks) ==
    IF \E i \in 1..(Len(toks) - 1) : toks[i] = KwMode
    THEN LET i == CHOOSE k \in 1..(Len(toks) - 1) : toks[k] = KwMode
         IN  IF toks[i + 1] = ExactWord THEN "exact" ELSE "partial"
    ELSE cfg.mode

\* The words of the corpus the pattern of a FIND line matches.
AllMatches(toks) == find_in_mode(index, ReqMode(toks), Join(PatTokens(toks)))

PageOf(toks, all) ==
    IF HasRange(toks) THEN Slice(all, RangeOff(toks), RangeLim(toks)) ELSE all

\* C11: a FIND (no gzip) is answered 404 NOT-FOUND 0 / END exactly when its
\* pattern matches no word; when some word matches, the reply is 200 OK <n>,
\* the n words of the page, END.
C11_NotFoundIffNoMatch ==
    (/\ Handled /\ WellFormed /\ IsQuery /\ Command = FIND
     /\ ~WantsGzip(req.toks) /\ ~IsBad(rres.lines))
        => LET all == AllMatches(req.toks)
               page == PageOf(req.toks, all)
           IN  IF all = <<>> THEN rres.lines = NotFound
               ELSE rres.lines
                      = <<StatusLine(200, "OK", Len(page))>> \o WordLines(page) \o <<EndLine>>

IsOk(lines) == lines # <<>> /\ lines[1].code = 200
Compressed(lines) == \E i \in 1..Len(lines) : lines[i].k = "gzip"
\* The lines between the status line and END.
BodyLines(lines) == SubSeq(lines, 2, Len(lines) - 1)

\* C12 as stated: in every uncompressed 200 response, of any command, the
\* count of the status line is the number of body lines before END.
C12_CountIsBodyLinesAnyCommand ==
    (Handled /\ IsOk(rres.lines) /\ ~Compressed(rres.lines))
        => /\ rres.lines[Len(rres.lines)] = EndLine
           /\ rres.lines[1].n = Len(BodyLines(rres.lines))

\* C12: in every uncompressed 200 response to FIND, FIND_MULTI, BATCH or
\* STATS the count of the status line is the number of body lines before
\* END; a 200 response to COUNT has no body line and its status line carries
\* the number of matching words.
C12_CountIsBodyLines ==
    (Handled /\ IsOk(rres.lines) /\ ~Compressed(rres.lines))
        => /\ rres.lines[Len(rres.lines)] = EndLine
           /\ Command \in {FIND, FIND_MULTI, BATCH, STATS, COUNT}
           /\ IF Command = COUNT
              THEN /\ BodyLines(rres.lines) = <<>>
                   /\ rres.lines[1].n >= 1
                   /\ IsQuery => rres.lines[1].n = Len(AllMatches(req.toks))
              ELSE rres.lines[1].n = Len(BodyLines(rres.lines))

C12_Witness ==
    /\ Handled /\ IsOk(rres.lines) /\ Command = BATCH
    /\ rres.lines[1].n = 2
    /\ Len(BodyLines(rres.lines)) = 2
    /\ rres.lines[3].k = "count"

EncodingPos(toks) == CHOOSE i \in 1..Len(toks) : toks[i] = KwEncoding
WithoutEncoding(toks) == SubSeq(toks, 1, EncodingPos(toks) - 1)

\* C13: when a FIND / FIND_MULTI asks for gzip and the same request without
\* the encoding suffix is answered 200 with the words ws, the reply is
\* 200 OK 1, one GZIP line, END, and the payload decoded (base64, then
\* gunzip) is the words of ws separated by single newlines, none at the end.
C13_GzipPayload ==
    (/\ Handled /\ WellFormed /\ IsQuery /\ Command \in {FIND, FIND_MULTI}
     /\ WantsGzip(req.toks) /\ IsOk(Reply(WithoutEncoding(req.toks))))
        => LET ws == BodyWords(Reply(WithoutEncoding(req.toks)))
               data == gzip_decompress(b64decode(rres.lines[2].w[1]))
           IN  /\ Len(rres.lines) = 3
               /\ rres.lines[1] = StatusLine(200, "OK", 1)
               /\ rres.lines[2].k = "gzip"
               /\ rres.lines[3] = EndLine
               /\ split_lines(data, <<>>) = ws
               /\ Cardinality({i \in 1..Len(data) : data[i] = Newline}) = Len(ws) - 1
               /\ data[Len(data)] # Newline

C13_Witness ==
    /\ Handled /\ WellFormed /\ IsQuery /\ Command = FIND_MULTI
    /\ WantsGzip(req.toks) /\ HasRange(req.toks)
    /\ Compressed(rres.lines)
    /\ Len(BodyWords(rres.lines)) = 2
    /\ Len(BodyWords(Reply(WithoutRange(req.toks)))) = 4

\* C14: in the threaded server every 400 reply to a line that was read (a
\* syntax error, a malformed suffix, an over-long or non-UTF-8 line, a too
\* complex pattern) ends with END and leaves the handler in its loop, at the
\* read of the next line.
C14_SessionStaysOpen ==
    (server = "threaded" /\ Handled /\ IsBad(rres.lines))
        => /\ rres.lines[Len(rres.lines)] = EndLine
           /\ rres.next = "loop"

C14_Witness ==
    /\ server = "threaded" /\ Handled
    /\ req.utf8 /\ ~WellFormed
    /\ rres.lines = BadRequest("pattern too long")
    /\ rres.next = "loop"

\* C15: in both servers a read that runs into the read deadline is answered
\* 400 BAD-REQUEST timeout / END and the session is left: no line is handled
\* and no further read follows.
C15_TimeoutClosesSession ==
    rres.event = "timeout"
        => /\ rres.lines = BadRequest("timeout")
           /\ rres.next = "close"
           /\ ~rres.matched

C15_Witness ==
    /\ server = "basic"
    /\ rres.event = "timeout"
    /\ rres.lines[1].code = 400
    /\ rres.lines[2] = EndLine
    /\ stats.requests = 0

\* The request names a mode the running server serves.
ModeServed == server = "basic" => ReqMode(req.toks) = "exact"

\* The limits in force for the request: halved when a soft limit is set and
\* the request observed the resident size above it.
LimitsInForce == effective_complexity_limits(cfg.limit_on /\ rres.obs, CFG_COMPLEXITY)

ComplexityReasons ==
    {"pattern too complex: too many '?' wildcards",
     "pattern too complex: too many '*' wildcards"}

\* C16: a FIND, COUNT or FIND_MULTI whose pattern holds more '?' than
\* max_questions or more '*' than max_stars in force is answered
\* 400 BAD-REQUEST pattern too complex: ... / END without the index being
\* queried; one that is within both limits is not refused for complexity.
C16_ComplexityGuard ==
    (Handled /\ WellFormed /\ IsQuery /\ ModeServed)
        => LET pat == Join(PatTokens(req.toks))
               over == \/ CountChar(pat, "?") > LimitsInForce.max_questions
                       \/ CountChar(pat, "*") > LimitsInForce.max_stars
           IN  IF over
               THEN /\ Len(rres.lines) = 2
                    /\ rres.lines[1].code = 400
                    /\ rres.lines[1].text \in ComplexityReasons
                    /\ rres.lines[1].n \in {LimitsInForce.max_questions, LimitsInForce.max_stars}
                    /\ rres.lines[2] = EndLine
                    /\ ~rres.matched
               ELSE /\ rres.lines[1].text \notin ComplexityReasons
                    /\ rres.matched

C16_Witness ==
    /\ Handled /\ WellFormed /\ IsQuery /\ Command = COUNT
    /\ rres.obs
    /\ CountChar(Join(PatTokens(req.toks)), "?") = CFG_COMPLEXITY.max_questions
    /\ rres.lines[1].text \in ComplexityReasons
    /\ rres.lines[1].n = 1
    /\ ~rres.matched

\* The line ends with the suffix "--mode <v>", after a pattern.
EndsWithMode(toks) ==
    /\ Len(toks) >= 4
    /\ toks[2] # <<>>
    /\ toks[Len(toks) - 1] = KwMode
    /\ \A i \in 2..(Len(toks) - 2) : toks[i] \notin KeywordTokens

\* C18: in either server a FIND, COUNT or FIND_MULTI whose --mode value is
\* neither exact nor partial, in any case, is answered
\* 400 BAD-REQUEST invalid mode / END.
C18_InvalidModeRefused ==
    (/\ Handled /\ WellFormed /\ Command \in {FIND, COUNT, FIND_MULTI}
     /\ EndsWithMode(req.toks)
     /\ Lower(req.toks[Len(req.toks)]) \notin {ExactWord, PartialWord})
        => rres.lines = BadRequest("invalid mode")

ModePos(toks) == CHOOSE i \in 1..(Len(toks) - 1) : toks[i] = KwMode
HasMode(toks) == \E i \in 1..(Len(toks) - 1) : toks[i] = KwMode
WithoutMode(toks) ==
    SubSeq(toks, 1, ModePos(toks) - 1) \o SubSeq(toks, ModePos(toks) + 2, Len(toks))

\* C19: the basic server answers a query that carries --mode partial with
\* 400 BAD-REQUEST mode not supported / END and does not query the index;
\* the same query with --mode exact is answered as without the suffix, a
\* FIND with the page of the exact matches of its pattern.
C19_BasicServesExactOnly ==
    (server = "basic" /\ Handled /\ WellFormed /\ IsQuery /\ HasMode(req.toks))
        => IF ReqMode(req.toks) = "partial"
           THEN /\ rres.lines = BadRequest("mode not supported")
                /\ ~rres.matched
           ELSE /\ rres.lines = Reply(WithoutMode(req.toks))
                /\ (Command = FIND /\ ~IsBad(rres.lines))
                     => /\ rres.matched
                        /\ BodyWords(rres.lines)
                             = PageOf(req.toks, find_exact(index, Join(PatTokens(req.toks))))

C19_Witness ==
    /\ server = "basic" /\ Handled /\ WellFormed /\ IsQuery /\ Command = FIND
    /\ HasMode(req.toks) /\ ReqMode(req.toks) = "partial"
    /\ IsOk(Reply(WithoutMode(req.toks)))
    /\ rres.lines[1].code = 400
    /\ rres.lines[1].text = "mode not supported"
    /\ ~rres.matched

\* FIND <pattern> --mode <m> RANGE <off> <lim> --accept-encoding gzip
InParserOrder(toks) ==
    /\ Len(toks) = 9
    /\ toks[1] = FIND
    /\ toks[3] = KwMode /\ toks[4] \in {ExactWord, PartialWord}
    /\ toks[5] = KwRange /\ IsDecimal(toks[6]) /\ IsDecimal(toks[7])
    /\ toks[8] = KwEncoding /\ toks[9] = GzipWord

\* FIND <pattern> RANGE <off> <lim> --mode <m> --accept-encoding gzip
InGrammarOrder(toks) ==
    /\ Len(toks) = 9
    /\ toks[1] = FIND
    /\ toks[3] = KwRange /\ IsDecimal(toks[4]) /\ IsDecimal(toks[5])
    /\ toks[6] = KwMode /\ toks[7] \in {ExactWord, PartialWord}
    /\ toks[8] = KwEncoding /\ toks[9] = GzipWord

\* The reply that applies the pattern, the mode m, the range and gzip.
AllApplied(lines, pat, m, off, lim) ==
    LET page == Slice(find_in_mode(index, IF m = ExactWord THEN "exact" ELSE "partial", pat),
                      int(off), int(lim))
    IN  IF page = <<>> THEN lines = NotFound
        ELSE /\ IsOk(lines) /\ Compressed(lines)
             /\ BodyWords(lines) = page

RefusedForComplexity == IsBad(rres.lines) /\ rres.lines[1].text \in ComplexityReasons

\* C20 as stated: the threaded server accepts a FIND whose suffixes are in
\* the order RANGE, --mode, --accept-encoding and applies all of them.
C20_GrammarOrderApplied ==
    (/\ server = "threaded" /\ Handled /\ WellFormed /\ InGrammarOrder(req.toks)
     /\ ~RefusedForComplexity)
        => AllApplied(rres.lines, req.toks[2], req.toks[7], req.toks[4], req.toks[5])

\* C20: the threaded server accepts a FIND whose suffixes are in the order
\* --mode, RANGE, --accept-encoding and applies the pattern, the mode, the
\* range and the encoding it names; with RANGE before --mode the request is
\* answered 400 BAD-REQUEST invalid RANGE.
C20_ParserOrderApplied ==
    (server = "threaded" /\ Handled /\ WellFormed /\ ~RefusedForComplexity)
        => /\ InParserOrder(req.toks)
             => AllApplied(rres.lines, req.toks[2], req.toks[4], req.toks[6], req.toks[7])
           /\ InGrammarOrder(req.toks) => rres.lines = BadRequest("invalid RANGE")

C20_Witness ==
    /\ server = "threaded" /\ Handled /\ WellFormed /\ InParserOrder(req.toks)
    /\ cfg.mode = "exact" /\ req.toks[4] = PartialWord
    /\ int(req.toks[6]) = 1
    /\ Compressed(rres.lines)
    /\ BodyWords(rres.lines) = <<<<"A", "b">>, <<"b", "a">>>>
    /\ BodyWords(rres.lines) # Slice(find_exact(index, req.toks[2]), 1, 2)

(***************************************************************************)
(* Claims about BATCH and about refusals (SpecRequest).                    *)
(***************************************************************************)
\* The line is BATCH <payload> [--mode m], the payload a JSON array of
\* strings written without a space.
IsBatch ==
    /\ req.utf8 /\ Command = BATCH
    /\ Len(req.toks) \in {2, 4}
    /\ Len(req.toks) = 4 => (req.toks[3] = KwMode /\ req.toks[4] \in {ExactWord, PartialWord})
    /\ json_loads(req.toks[2]).ok

OverLimits(pat) ==
    \/ CountChar(pat, "?") > LimitsInForce.max_questions
    \/ CountChar(pat, "*") > LimitsInForce.max_stars

\* C21: the threaded server answers BATCH [p0, ..., pn-1] with 200 OK n, the
\* lines COUNT i c in array order, END, c being the count of pi in the
\* active mode, or 0 when pi exceeds the complexity limits.
C21_BatchCountsEach ==
    (server = "threaded" /\ Handled /\ WellFormed /\ IsBatch)
        => LET pats == json_loads(req.toks[2]).items
               c(i) == IF OverLimits(pats[i]) THEN 0
                       ELSE count_in_mode(index, ReqMode(req.toks), pats[i])
           IN  rres.lines = <<StatusLine(200, "OK", Len(pats))>>
                            \o [i \in 1..Len(pats) |-> CountLine(i - 1, c(i))]
                            \o <<EndLine>>

\* C24: a failure raised while a request is parsed or matched does not end
\* the session without a reply: the request is answered with a
\* 400 BAD-REQUEST line followed by END.
C24_FailureIsAnswered ==
    (Handled /\ rres.next = "raise")
        => (IsBad(rres.lines) /\ rres.lines[Len(rres.lines)] = EndLine)

QueryCommands == {FIND, FIND_MULTI, COUNT, BATCH}

\* The line ends with the suffix "--accept-encoding <value>".
EndsWithEncoding(toks) == Len(toks) >= 4 /\ toks[Len(toks) - 1] = KwEncoding

\* The tokens that follow the last RANGE keyword, up to the encoding suffix.
RangeTail(toks) ==
    LET last == CHOOSE i \in 3..Len(toks) :
                    toks[i] = KwRange /\ \A j \in (i + 1)..Len(toks) : toks[j] # KwRange
        stop == IF EndsWithEncoding(toks) THEN Len(toks) - 2 ELSE Len(toks)
    IN  SubSeq(toks, last + 1, stop)

UnknownCommand ==
    req.utf8 /\ req.toks # <<<<>>>> /\ Command \notin QueryCommands \cup {STATS, QUIT}

MissingPattern ==
    /\ req.utf8 /\ Command \in QueryCommands
    /\ Len(req.toks) = 1 \/ (Len(req.toks) = 2 /\ req.toks[2] = <<>>)

InvalidEncoding ==
    /\ req.utf8 /\ Command \in QueryCommands
    /\ EndsWithEncoding(req.toks)
    /\ Lower(req.toks[Len(req.toks)]) # GzipWord

InvalidRangeTail ==
    /\ req.utf8 /\ Command \in QueryCommands
    /\ \E i \in 3..(Len(req.toks) - 1) : req.toks[i] = KwRange
    /\ LET tail == RangeTail(req.toks)
       IN  ~(Len(tail) = 2 /\ IsDecimal(tail[1]) /\ IsDecimal(tail[2]))

TooLong == ByteLen(req) > cfg.max_pattern_length

\* C29: the threaded server answers a request with an unknown command, no
\* pattern, an encoding other than gzip, a RANGE tail that is not two
\* decimal numbers, or an over-long line with 400 BAD-REQUEST, does not
\* query the index for it and counts neither an OK nor a NOT-FOUND response.
C29_MalformedRefused ==
    (/\ server = "threaded" /\ Handled
     /\ UnknownCommand \/ MissingPattern \/ InvalidEncoding \/ InvalidRangeTail \/ TooLong)
        => /\ IsBad(rres.lines)
           /\ ~rres.matched
           /\ stats.ok_responses = 0 /\ stats.not_found_responses = 0

\* The reply that was sent has the given status code.
Replied(code) == rres.next # "none" /\ rres.lines # <<>> /\ rres.lines[1].code = code

\* C31: every reply increments the counter of its status class exactly
\* once: 400 bad_request_responses, 404 not_found_responses, and 200 to
\* FIND, FIND_MULTI or COUNT ok_responses.
C31_ReplyCountedOnce ==
    /\ Replied(400) => stats.bad_request_responses = 1
    /\ Replied(404) => stats.not_found_responses = 1
    /\ (Replied(200) /\ req.utf8 /\ Command \in {FIND, FIND_MULTI, COUNT})
          => stats.ok_responses = 1

\* What the guard says of the request's pattern under the configured limits.
RejectedAsConfigured ==
    is_pattern_too_complex(req.toks[2], CFG_COMPLEXITY.max_questions,
                           CFG_COMPLEXITY.max_stars).tc

\* C37: for every configured max_questions and max_stars, 0 and 1 included,
\* the limits in force under memory pressure are not greater than the
\* configured ones, so pressure never makes the guard accept a pattern that
\* it rejects without pressure.
C37_PressureOnlyTightens ==
    (Handled /\ rres.ump) =>
        /\ effective_complexity_limits(rres.ump, CFG_COMPLEXITY).max_questions
              <= CFG_COMPLEXITY.max_questions
        /\ effective_complexity_limits(rres.ump, CFG_COMPLEXITY).max_stars
              <= CFG_COMPLEXITY.max_stars
        /\ RejectedAsConfigured => IsBad(rres.lines)

\* The request reaches the RANGE step of the parser: a line within the
\* length limit, a query command of this server with a pattern, a RANGE keyword after it and no refused encoding.
ReachesRange ==
    /\ WellFormed /\ Command \in QueryCommands
    /\ server = "basic" => Command # BATCH
    /\ ~MissingPattern /\ ~InvalidEncoding
    /\ \E i \in 3..(Len(req.toks) - 1) : req.toks[i] = KwRange

\* The validation check of the RANGE tail: two tokens that pass the digit test.
PassesRangeCheck(tail) == Len(tail) = 2 /\ isdigit(tail[1]) /\ isdigit(tail[2])

\* C38: a RANGE tail that passes the validation check (two tokens, each
\* accepted by the digit test) is converted without raising an error, and a
\* tail that cannot be converted is answered 400 BAD-REQUEST invalid RANGE.
C38_CheckedRangeConverts ==
    (Handled /\ ReachesRange) =>
        /\ PassesRangeCheck(RangeTail(req.toks)) => rres.next # "raise"
        /\ InvalidRangeTail =>
              (IsBad(rres.lines) /\ rres.lines[1].text = "invalid RANGE")

\* The words FIND answers for the pattern and suffixes of this request, the
\* RANGE suffix left out.
FindUnpaged ==
    BodyWords(Reply(<<FIND>> \o Tail(IF HasRange(req.toks) THEN WithoutRange(req.toks)
                                     ELSE req.toks)))

NoRepeats(s) == \A i, j \in 1..Len(s) : i # j => s[i] # s[j]

\* A FIND_MULTI request with one pattern token.
MultiOfOne ==
    Handled /\ WellFormed /\ Command = FIND_MULTI /\ Len(PatTokens(req.toks)) = 1

\* C39: for every corpus, one that holds a word twice too, FIND_MULTI p with
\* the single pattern token p answers the status line and body of FIND p in
\* the same mode.
C39_MultiOfOneIsFind ==
    MultiOfOne => rres.lines = Reply(<<FIND>> \o Tail(req.toks))

\* C39 (amended): FIND_MULTI p with the single pattern token p answers the
\* words of FIND p in the same mode with each repeated word kept at its first
\* occurrence only; it answers the status line and body of FIND p whenever
\* FIND p finds no word twice.
C39_MultiOfOneIsFindOnce ==
    MultiOfOne =>
        /\ NoRepeats(FindUnpaged) => rres.lines = Reply(<<FIND>> \o Tail(req.toks))
        /\ ~HasRange(req.toks) =>
              BodyWords(rres.lines) = FirstOccurrences(FindUnpaged, {})

\* FIND_MULTI with one pattern answered three words where FIND answers four,
\* two of them differing in case only.
C39_Witness ==
    /\ MultiOfOne /\ ~HasRange(req.toks)
    /\ Len(FindUnpaged) = 4
    /\ Len(BodyWords(rres.lines)) = 3
    /\ \E i, j \in 1..3 : i # j /\ Lower(BodyWords(rres.lines)[i]) = Lower(BodyWords(rres.lines)[j])

(***************************************************************************)
(* Claims about the threaded server's sessions (checked under Spec).       *)
(***************************************************************************)
Acquired == {c \in Conns : conns[c].st \in {"reading", "writing", "finally"}}
Released == {c \in Conns : conns[c].st = "done"}
InPool == {c \in Conns : conns[c].st \in {"queued", "reading", "writing"}}

\* C2: the sessions handed to the pool and not yet closed never outnumber
\* max_concurrent_connections.
C2_CapRespected == Cardinality(InPool) <= cfg.max_concurrent_connections

\* C3: active_connections is the number of sessions acquired and not yet
\* released, and connections the number ever acquired: one increment per
\* session, one decrement per release, whatever the way out.
C3_ActiveIsAcquired ==
    server = "threaded" =>
        /\ stats.active_connections = Cardinality(Acquired)
        /\ stats.connections = Cardinality(Acquired \cup Released)

C3_Witness ==
    \E c \in Conns : \E d \in Conns :
        /\ conns[c].st = "done" /\ conns[c].exit = "error"
        /\ conns[d].st = "writing"
        /\ stats.active_connections = 1

\* C4: on every connection each request but the first is read right after
\* the END line of the response to the request before it, and every line of
\* a response is written after its request is read and before the next is.
C4_FifoPerConnection ==
    \A c \in Conns :
        LET log == conns[c].log
        IN  \A i \in 1..Len(log) :
               /\ (log[i].e = "read" /\ log[i].k > 1)
                    => /\ log[i - 1].e = "write"
                       /\ log[i - 1].k = log[i].k - 1
                       /\ log[i - 1].end
               /\ (log[i].e = "write" /\ log[i].k > 0)
                    => /\ \E j \in 1..(i - 1) : log[j].e = "read" /\ log[j].k = log[i].k
                       /\ \A j \in 1..(i - 1) : log[j].k <= log[i].k

C4_Witness ==
    \E c \in Conns : \E d \in Conns :
        /\ c # d
        /\ conns[d].st = "writing"
        /\ \E i \in 1..Len(conns[c].log) :
              conns[c].log[i].e = "read" /\ conns[c].log[i].k = 2
        /\ Len(conns[c].log) > 4

(***************************************************************************)
(* Claims about the pressure flag (checked under SpecPressure).            *)
(***************************************************************************)
HalvedLimits == effective_complexity_limits(TRUE, CFG_COMPLEXITY)

\* C17: a request that observed the resident size above the soft limit is
\* validated against the halved limits, whatever the other sessions write
\* to the flag between its observation and its lookup.
C17_OwnObservationDecides ==
    \A c \in Conns :
        (conns[c].st = "reading" /\ conns[c].nread > 0 /\ conns[c].obs)
            => /\ conns[c].limits = HalvedLimits
               /\ conns[c].reply
                    = threaded_request(conns[c].line, EnvSeen(TRUE, TRUE)).lines

(***************************************************************************)
(* Claims about independent sessions (checked under SpecSessions).         *)
(***************************************************************************)
\* The lines the threaded server answers to the line when its session is
\* the only one, on a server without a memory soft limit.
SoloReply(line) ==
    threaded_request(line, [EnvSeen(FALSE, FALSE) EXCEPT !.ump = FALSE, !.stats = NewStats]).lines

\* C28: without a memory soft limit, whatever the other sessions do between
\* the steps of a FIND or COUNT request, the session answers it with the
\* reply the request gets on a connection that is alone.
C28_ReplyAsWhenAlone ==
    \A c \in Conns :
        (/\ ~cfg.limit_on
         /\ conns[c].st = "reading" /\ conns[c].nread > 0
         /\ conns[c].line.toks[1] \in {FIND, COUNT})
            => conns[c].reply = SoloReply(conns[c].line)

\* A FIND was answered with matches while the other session, which saw the
\* resident size high, was between its two accesses to the flag.
C28_Witness ==
    /\ ~cfg.limit_on
    /\ conns[1].st = "reading" /\ conns[1].nread = 1
    /\ conns[1].line.toks[1] = FIND
    /\ conns[1].reply # <<>> /\ conns[1].reply[1].code = 200
    /\ conns[2].st = "observed" /\ conns[2].obs

(***************************************************************************)
(* Claims about the histogram (checked under SpecHist).                    *)
(***************************************************************************)
RECURSIVE AcceptedWith(_, _, _)
\* How many requests of the connections 1..n passed the guard with a
\* pattern of exactly k '?' (i = 1) or k '*' (i = 2).
AcceptedWith(n, i, k) ==
    IF n = 0 THEN 0
    ELSE Len(SelectSeq(conns[n].accepted, LAMBDA qs : qs[i] = k)) + AcceptedWith(n - 1, i, k)

\* C30: once all requests have completed, bucket q_k (s_k) of the
\* pattern-complexity histogram is the number of requests that passed the
\* complexity guard with exactly k '?' ('*') in their pattern.
C30_NoHistogramUpdateLost ==
    (\A c \in Conns : conns[c].st = "reading")
        => \A k \in 0..(2 * MaxPatLen + 1) :
              /\ stats.pattern_complexity_hist[<<"q", k>>] = AcceptedWith(MaxConns, 1, k)
              /\ stats.pattern_complexity_hist[<<"s", k>>] = AcceptedWith(MaxConns, 2, k)

\* C36: in the threaded server ok_responses + not_found_responses +
\* bad_request_responses never exceeds requests, after any requests on any
\* connections, so the reported error_rate never exceeds 1.
C36_ResponsesWithinRequests ==
    server = "threaded" =>
        stats.ok_responses + stats.not_found_responses + stats.bad_request_responses
            <= stats.requests

(***************************************************************************)
(* Claims about the accept loops (SpecBasic, SpecShutdown).                *)
(***************************************************************************)
\* C22: the basic server reads at most one request line per connection:
\* once readline() has returned a line on a connection, serve_once is never
\* at readline() on that connection again.
C22_OneLinePerConnection ==
    server = "basic" =>
        \A c \in Conns : /\ conns[c].nread <= 1
                         /\ conns[c].nread = 1 => conns[c].st # "reading"

\* A connection was answered and closed after its one line while the
\* clients could still have sent more.
C22_Witness ==
    /\ server = "basic"
    /\ conns[1].st = "done" /\ conns[1].nread = 1
    /\ conns[1].log # <<>> /\ conns[1].log[Len(conns[1].log)].end
    /\ LinesRead(MaxConns) < MaxRequests

\* A session that ended by an exception: the peer was gone while the reply
\* was written or the line was read ("error"), or handling raised ("raise").
EndedAbnormally(c) == conns[c].st = "done" /\ conns[c].exit \in {"error", "raise"}

\* C23: a session that ends abnormally does not stop the server: after it,
\* main is still in its accept loop (or has left it on a shutdown signal),
\* so that connections arriving afterwards are served.
C23_SessionFailureIsolated ==
    (\E c \in Conns : EndedAbnormally(c)) => main.pc # "crashed"

\* Connection c is put on the executor's queue by this step.
HandedToPool(c) == conns[c].st # "queued" /\ conns'[c].st = "queued"

\* C25: once a signal has set shutdown_evt, the acceptor of the threaded
\* server submits no further connection to the worker pool.
C25_NoSubmitAfterSignal ==
    [][(server = "threaded" /\ main.shutdown) => \A c \in Conns : ~HandedToPool(c)]_vars

\* The session of connection c was handed to the pool and is not over.
Pending(c) == conns[c].st = "queued" \/ Running(c)

\* C26: after a shutdown signal the threaded server closes the listener
\* only when every session handed to the pool has run to completion, and,
\* sessions ending, it does close it and terminate.
C26_DrainsThenTerminates ==
    /\ [](main.pc = "closed" => \A c \in Conns : ~Pending(c))
    /\ (main.shutdown ~> main.pc = "closed")

\* The listener was closed after the one worker thread of the pool had run
\* the sessions of all connections, the last of them to its end.
C26_Witness ==
    /\ main.pc = "closed"
    /\ \A c \in Conns : conns[c].st = "done"
    /\ cfg.max_workers = 1

\* C27: the compiled-pattern cache the matcher consults never holds more
\* entries than the cache_size of the configuration last loaded.
C27_CacheWithinConfiguredSize == Len(regex_cache) <= cfg.cache_size

\* C35: in the basic server the backpressure test never rejects: at every
\* accept active_connections is 0, each connection being opened, served and
\* closed before the next accept, so 503 BUSY is never sent.
C35_BasicNeverBusy ==
    server = "basic" =>
        /\ main.pc = "accept" => stats.active_connections = 0
        /\ \A c \in Conns : conns[c].st # "refused"

\* With a cap of one connection a second client was admitted after the
\* first was served.
C35_Witness ==
    /\ server = "basic"
    /\ cfg.max_concurrent_connections = 1
    /\ stats.connections = 2
    /\ \E c \in Conns : conns[c].st = "done"

\* C40: in the threaded server a --mode suffix affects only the request that
\* carries it: whatever modes the earlier requests of a connection selected,
\* a request without --mode is matched in the server's default mode.
C40_ModeSuffixIsPerRequest ==
    server = "threaded" =>
        \A c \in Conns :
            (conns[c].nread >= 1 /\ ~HasMode(conns[c].line.toks)) =>
                conns[c].reply = threaded_request(conns[c].line, Env(FALSE)).lines

\* The second request of a connection carried no --mode, the first had
\* selected the other mode, and the two modes find different words.
C40_Witness ==
    \E c \in Conns :
        /\ conns[c].nread = 2
        /\ ~HasMode(conns[c].line.toks)
        /\ conns[c].prior \in {"exact", "partial"} \ {cfg.mode}
        /\ conns[c].reply # <<>>
        /\ conns[c].reply #
              threaded_request(conns[c].line,
                               [Env(FALSE) EXCEPT !.mode = conns[c].prior]).lines

====
